---- MODULE Spec2Model ----
(***************************************************************************)
(* Model of the Homey MTD085-ZB presence sensor app: the device matcher,   *)
(* the IAS Zone status parser, the flow trigger logic, the retry helpers,  *)
(* the device driver, and the validators that the property tests define    *)
(* for the app manifest and the locale file.  JavaScript values are tagged *)
(* records, so that equality, typeof and truthiness are computed the way   *)
(* the language computes them.                                             *)
(***************************************************************************)
EXTENDS Integers, Sequences, FiniteSets, TLC

VARIABLES
    device,         \* device-matcher: the value handed to isMatchingDevice
    matchResult,    \* device-matcher: completion of the last call, or NotCalled
    zoneStatus,     \* parser: the raw zone status value handed to the parser
    parsed,         \* parser: completion of parseZoneStatus(zoneStatus)
    presence,       \* parser: completion of isPresenceDetected(zoneStatus)
    reparsed,       \* parser: completion of parseZoneStatus on the parsed flags
    observed,       \* flow trigger: the presence states seen so far, oldest first
    fired,          \* flow trigger: what determineFlowTrigger returned for each
    retryFn,        \* retry: "withRetrySync" or "withRetry", the function running
    options,        \* retry: the maxRetries and delay arguments as passed
    opScript,       \* retry: how the k-th invocation of the operation behaves
    pc,             \* retry: where the running function stands
    attempt,        \* retry: the loop variable
    attempts,       \* retry: the local variable attempts
    lastError,      \* retry: the local variable lastError
    caught,         \* retry: the error bound by the catch clause
    opCalls,        \* retry: the loop's attempt number at each invocation so far
    onRetryCalls,   \* retry: the arguments of each onRetry call so far
    timers,         \* retry: the delay of each timer set so far
    trace,          \* retry: what withRetry has done so far, in order
    outcome,        \* retry: completion of the running function
    initialised,    \* device: onNodeInit has stored the zclNode reference
    iasZoneCluster, \* device: endpoint 1 of the node has an IAS Zone cluster
    handlersRegistered, \* device: the cluster's notification handlers are set
    polling,        \* device: the 30-second polling interval is running
    alarmMotion,    \* device: the value of the alarm_motion capability
    available,      \* device: the device is marked available
    store,          \* device: the store values iasZoneEnrolled, cieAddressConfigured
    connectivity,   \* device: which of onOffline / onOnline completed last
    lastRun,        \* device: the last handler run: its input, what it found,
                    \*         what it did in order, and how it completed
    manifest,       \* manifest test: the value handed to validateManifest
    manifestResult, \* manifest test: completion of validateManifest(manifest)
    localization,   \* localization test: the value handed to validateLocalization
    localizationResult, \* localization test: completion of the last call
    nodeInit,       \* overlapping handlers: where onNodeInit stands
    tasks,          \* overlapping handlers: where the notification handler,
                    \*   the poll tick and the two status reads stand
    delivered,      \* overlapping handlers: the zone status the device
                    \*   delivered last, null before the first
    deleted,        \* overlapping handlers: onDeleted has run
    tickAfterDelete \* overlapping handlers: a poll tick began after that

matcherVars == <<device, matchResult>>
parserVars == <<zoneStatus, parsed, presence, reparsed>>
triggerVars == <<observed, fired>>
retryVars == <<retryFn, options, opScript, pc, attempt, attempts, lastError,
               caught, opCalls, onRetryCalls, timers, trace, outcome>>
deviceVars == <<initialised, iasZoneCluster, handlersRegistered, polling,
                alarmMotion, available, store, connectivity, lastRun>>
manifestVars == <<manifest, manifestResult>>
localizationVars == <<localization, localizationResult>>
overlapVars == <<nodeInit, tasks, delivered, deleted, tickAfterDelete>>
vars == <<matcherVars, parserVars, triggerVars, retryVars, deviceVars,
          manifestVars, localizationVars, overlapVars>>

\* What the actions of one unit leave alone
notMatcherVars == <<parserVars, triggerVars, retryVars, deviceVars,
                    manifestVars, localizationVars,
    overlapVars>>
notParserVars == <<matcherVars, triggerVars, retryVars, deviceVars,
                   manifestVars, localizationVars,
    overlapVars>>
notTriggerVars == <<matcherVars, parserVars, retryVars, deviceVars,
                    manifestVars, localizationVars,
    overlapVars>>
notRetryVars == <<matcherVars, parserVars, triggerVars, deviceVars,
                  manifestVars, localizationVars,
    overlapVars>>
notDeviceVars == <<matcherVars, parserVars, triggerVars, retryVars,
                   manifestVars, localizationVars,
    overlapVars>>
notManifestVars == <<matcherVars, parserVars, triggerVars, retryVars,
                     deviceVars, localizationVars,
    overlapVars>>
notLocalizationVars == <<matcherVars, parserVars, triggerVars, retryVars,
                         deviceVars, manifestVars,
    overlapVars>>

----------------------------------------------------------------------------
(* JavaScript values *)

Undefined == [t |-> "undefined"]
Null == [t |-> "null"]
Bool(b) == [t |-> "boolean", b |-> b]
Num(n) == [t |-> "number", n |-> n]
Str(s) == [t |-> "string", s |-> s]

\* typeof v
TypeOf(v) == IF v.t = "null" THEN "object" ELSE v.t

\* ToBoolean(v): what `!v`, `v && ...`, `if (v)` and Boolean(v) test
ToBoolean(v) ==
    CASE v.t = "undefined" -> FALSE
      [] v.t = "null" -> FALSE
      [] v.t = "boolean" -> v.b
      [] v.t = "number" -> v.n # 0
      [] v.t = "string" -> v.s # ""
      [] OTHER -> TRUE

\* a === b; two object values are the same reference iff they are the same value
StrictEquals(a, b) ==
    /\ a.t = b.t
    /\ CASE a.t = "boolean" -> a.b = b.b
         [] a.t = "number" -> a.n = b.n
         [] a.t = "string" -> a.s = b.s
         [] OTHER -> a = b

\* Completions of a call: a returned value or a raised error
Return(v) == [kind |-> "return", value |-> v]
Throw(e) == [kind |-> "throw", error |-> e]
NotCalled == [kind |-> "none"]

----------------------------------------------------------------------------
(* lib/device-matcher *)

EXPECTED_MODEL_ID == Str("TS0225")
EXPECTED_MANUFACTURER_NAME == Str("_TZ321C_fkzihax8")

\* An object (or a function object) with the two identity properties; a
\* property that is missing reads as undefined.
DeviceObject(typ, m, n) == [t |-> typ, modelId |-> m, manufacturerName |-> n]

\* Property values tried for modelId and manufacturerName
IdentityFieldValues ==
    { Undefined, Null, Num(0), Str(""), Str("TS0225"), Str("ts0225"),
      Str("_TZ321C_fkzihax8"), Str("_TZ321C_fkzihax8 ") }

DeviceValues ==
    { Undefined, Null, Bool(FALSE), Bool(TRUE), Num(0), Num(123),
      Str(""), Str("string"), Str("TS0225") }
    \cup { DeviceObject(typ, m, n) : typ \in {"object", "function"},
                                     m \in IdentityFieldValues,
                                     n \in IdentityFieldValues }

\* Reading device.modelId / device.manufacturerName: a property read on
\* null or undefined raises a TypeError, on any other primitive it gives
\* undefined
GetModelId(d) ==
    IF d.t \in {"undefined", "null"} THEN Throw("TypeError")
    ELSE IF d.t \in {"object", "function"} THEN Return(d.modelId)
    ELSE Return(Undefined)
GetManufacturerName(d) ==
    IF d.t \in {"undefined", "null"} THEN Throw("TypeError")
    ELSE IF d.t \in {"object", "function"} THEN Return(d.manufacturerName)
    ELSE Return(Undefined)

\* modelId === EXPECTED_MODEL_ID && manufacturerName === EXPECTED_MANUFACTURER_NAME
BothIdentifiersMatch(d) ==
    LET modelId == GetModelId(d)
        manufacturerName == GetManufacturerName(d)
    IN  IF modelId.kind = "throw" THEN modelId
        ELSE IF ~StrictEquals(modelId.value, EXPECTED_MODEL_ID) THEN Return(Bool(FALSE))
        ELSE IF manufacturerName.kind = "throw" THEN manufacturerName
        ELSE Return(Bool(StrictEquals(manufacturerName.value,
                                      EXPECTED_MANUFACTURER_NAME)))

\* Faulty variant: the manufacturerName test is left out
MatchIgnoringManufacturer(d) ==
    IF ~ToBoolean(d) \/ TypeOf(d) # "object"
    THEN Return(Bool(FALSE))
    ELSE LET modelId == GetModelId(d)
         IN  IF modelId.kind = "throw" THEN modelId
             ELSE Return(Bool(StrictEquals(modelId.value, EXPECTED_MODEL_ID)))

\* Faulty variant: the properties are read without the guard
isMatchingDeviceUnguarded(d) == BothIdentifiersMatch(d)

isMatchingDevice(d) ==
    IF ~ToBoolean(d) \/ TypeOf(d) # "object"
    THEN Return(Bool(FALSE))
    ELSE BothIdentifiersMatch(d)

MatcherInit ==
    /\ device \in DeviceValues
    /\ matchResult = NotCalled

MatcherIdle ==
    /\ device = Undefined
    /\ matchResult = NotCalled

\* The radio stack hands isMatchingDevice a discovered device record
CallIsMatchingDevice ==
    /\ matchResult = NotCalled
    /\ matchResult' = isMatchingDevice(device)
    /\ UNCHANGED <<device, notMatcherVars>>

\* Another device is discovered
DiscoverDevice ==
    /\ matchResult # NotCalled
    /\ device' \in DeviceValues
    /\ matchResult' = NotCalled
    /\ UNCHANGED notMatcherVars

----------------------------------------------------------------------------
(* lib/zone-status-parser *)

\* x & y and x | y.  The operands of the model lie well inside the 32-bit
\* range, where the language's operators agree with the operators on
\* two's-complement integers of unbounded width computed here.
RECURSIVE BitAnd(_, _)
BitAnd(x, y) ==
    IF x = 0 \/ y = 0 THEN 0
    ELSE IF x = -1 THEN y
    ELSE IF y = -1 THEN x
    ELSE (x % 2) * (y % 2) + 2 * BitAnd(x \div 2, y \div 2)

RECURSIVE BitOr(_, _)
BitOr(x, y) ==
    IF x = 0 THEN y
    ELSE IF y = 0 THEN x
    ELSE IF x = -1 \/ y = -1 THEN -1
    ELSE (IF x % 2 = 1 \/ y % 2 = 1 THEN 1 ELSE 0) + 2 * BitOr(x \div 2, y \div 2)

\* The value a plain object's inherited valueOf() returns: the object itself
Self == [t |-> "object", self |-> TRUE]
\* A function returning ret
Fn(ret) == [t |-> "function", ret |-> ret]
\* An array of numbers
Arr(elems) == [t |-> "object", isArray |-> TRUE, elems |-> elems]
IsArray(v) == v.t = "object" /\ "isArray" \in DOMAIN v

FlagNames ==
    << "alarm1", "alarm2", "tamper", "battery",
       "supervisionReports", "restoreReports", "trouble", "acMains" >>

\* An object with no own properties
PlainObject == [t |-> "object"]

\* The object with one more own property; a property set to undefined reads
\* like a missing one
With(obj, name, v) == IF v = Undefined THEN obj ELSE (name :> v) @@ obj

\* A Buffer holding the bytes b
BufferOf(b) == [t |-> "object", bytes |-> b]
IsBuffer(v) == v.t = "object" /\ "bytes" \in DOMAIN v

\* obj.name: an own property, else the inherited valueOf, else undefined; a
\* property read on a primitive gives undefined
Get(obj, name) ==
    IF obj.t # "object" THEN Undefined
    ELSE IF name \in DOMAIN obj THEN obj[name]
    ELSE IF name = "valueOf" THEN Fn(Self)
    ELSE Undefined

\* Buffer.from(array): every element is stored modulo 256
BufferFrom(data) == BufferOf([i \in 1..Len(data.elems) |-> data.elems[i] % 256])

\* Faulty variant: the two bytes are read high byte first
readUInt16BE(buf) ==
    IF Len(buf.bytes) < 2
    THEN Throw("RangeError")
    ELSE Return(Num(256 * buf.bytes[1] + buf.bytes[2]))

\* buf.readUInt16LE(0)
readUInt16LE(buf) ==
    IF Len(buf.bytes) < 2
    THEN Throw("RangeError")
    ELSE Return(Num(buf.bytes[1] + 256 * buf.bytes[2]))

\* status |= mask, when the flag is truthy
OrFlag(status, obj, name, mask) ==
    IF ToBoolean(Get(obj, name)) THEN BitOr(status, mask) ELSE status

\* Faulty variant: trouble and acMains rebuilt under each other's mask
BitmapToNumberMasksSwapped(obj) ==
    LET s1 == OrFlag(0, obj, "alarm1", 1)
        s2 == OrFlag(s1, obj, "alarm2", 2)
        s3 == OrFlag(s2, obj, "tamper", 4)
        s4 == OrFlag(s3, obj, "battery", 8)
        s5 == OrFlag(s4, obj, "supervisionReports", 16)
        s6 == OrFlag(s5, obj, "restoreReports", 32)
        s7 == OrFlag(s6, obj, "trouble", 128)
        s8 == OrFlag(s7, obj, "acMains", 64)
    IN  s8

BitmapToNumber(obj) ==
    LET s1 == OrFlag(0, obj, "alarm1", 1)
        s2 == OrFlag(s1, obj, "alarm2", 2)
        s3 == OrFlag(s2, obj, "tamper", 4)
        s4 == OrFlag(s3, obj, "battery", 8)
        s5 == OrFlag(s4, obj, "supervisionReports", 16)
        s6 == OrFlag(s5, obj, "restoreReports", 32)
        s7 == OrFlag(s6, obj, "trouble", 64)
        s8 == OrFlag(s7, obj, "acMains", 128)
    IN  s8

\* Faulty variant: the raw field is consulted before valueOf()
toZoneStatusNumberRawFirst(zs) ==
    IF TypeOf(zs) = "number" THEN Return(zs)
    ELSE IF IsBuffer(zs) THEN readUInt16LE(zs)
    ELSE IF /\ ToBoolean(zs)
            /\ StrictEquals(Get(zs, "type"), Str("Buffer"))
            /\ IsArray(Get(zs, "data"))
         THEN readUInt16LE(BufferFrom(Get(zs, "data")))
    ELSE IF ToBoolean(zs) /\ TypeOf(zs) = "object"
         THEN IF ~StrictEquals(Get(zs, "alarm1"), Undefined)
              THEN Return(Num(BitmapToNumber(zs)))
              ELSE IF /\ ~StrictEquals(Get(zs, "raw"), Undefined)
                      /\ TypeOf(Get(zs, "raw")) = "number"
                   THEN Return(Get(zs, "raw"))
              ELSE IF /\ TypeOf(Get(zs, "valueOf")) = "function"
                      /\ TypeOf(Get(zs, "valueOf").ret) = "number"
                   THEN Return(Get(zs, "valueOf").ret)
              ELSE Return(Num(0))
    ELSE Return(Num(0))

toZoneStatusNumber(zs) ==
    IF TypeOf(zs) = "number" THEN Return(zs)
    ELSE IF IsBuffer(zs) THEN readUInt16LE(zs)
    ELSE IF /\ ToBoolean(zs)
            /\ StrictEquals(Get(zs, "type"), Str("Buffer"))
            /\ IsArray(Get(zs, "data"))
         THEN readUInt16LE(BufferFrom(Get(zs, "data")))
    ELSE IF ToBoolean(zs) /\ TypeOf(zs) = "object"
         THEN IF ~StrictEquals(Get(zs, "alarm1"), Undefined)
              THEN Return(Num(BitmapToNumber(zs)))
              ELSE IF /\ TypeOf(Get(zs, "valueOf")) = "function"
                      /\ TypeOf(Get(zs, "valueOf").ret) = "number"
                   THEN Return(Get(zs, "valueOf").ret)
              ELSE IF /\ ~StrictEquals(Get(zs, "raw"), Undefined)
                      /\ TypeOf(Get(zs, "raw")) = "number"
                   THEN Return(Get(zs, "raw"))
              ELSE Return(Num(0))
    ELSE Return(Num(0))

\* The object literal parseZoneStatus builds from the status number
FlagsOf(status, m1, m2, m3, m4, m5, m6, m7, m8) ==
    [ t |-> "object",
      alarm1 |-> Bool(BitAnd(status, m1) # 0),
      alarm2 |-> Bool(BitAnd(status, m2) # 0),
      tamper |-> Bool(BitAnd(status, m3) # 0),
      battery |-> Bool(BitAnd(status, m4) # 0),
      supervisionReports |-> Bool(BitAnd(status, m5) # 0),
      restoreReports |-> Bool(BitAnd(status, m6) # 0),
      trouble |-> Bool(BitAnd(status, m7) # 0),
      acMains |-> Bool(BitAnd(status, m8) # 0) ]

\* Faulty variant: acMains tested under the trouble mask 0x0040
parseZoneStatusTroubleMaskForAcMains(zs) ==
    LET status == toZoneStatusNumber(zs)
    IN  IF status.kind = "throw" THEN status
        ELSE Return(FlagsOf(status.value.n, 1, 2, 4, 8, 16, 32, 64, 64))

\* Faulty variant: acMains tested under 0x0180, bit 8 included
parseZoneStatusWideMaskForAcMains(zs) ==
    LET status == toZoneStatusNumber(zs)
    IN  IF status.kind = "throw" THEN status
        ELSE Return(FlagsOf(status.value.n, 1, 2, 4, 8, 16, 32, 64, 384))

parseZoneStatus(zs) ==
    LET status == toZoneStatusNumber(zs)
    IN  IF status.kind = "throw" THEN status
        ELSE Return(FlagsOf(status.value.n, 1, 2, 4, 8, 16, 32, 64, 128))

\* Faulty variant: presence read from alarm1 or alarm2 (mask 0x0003)
isPresenceDetectedEitherAlarm(zs) ==
    IF /\ ToBoolean(zs)
       /\ TypeOf(zs) = "object"
       /\ ~StrictEquals(Get(zs, "alarm1"), Undefined)
    THEN Return(Bool(ToBoolean(Get(zs, "alarm1"))))
    ELSE LET status == toZoneStatusNumber(zs)
         IN  IF status.kind = "throw" THEN status
             ELSE Return(Bool(BitAnd(status.value.n, 3) # 0))

isPresenceDetected(zs) ==
    IF /\ ToBoolean(zs)
       /\ TypeOf(zs) = "object"
       /\ ~StrictEquals(Get(zs, "alarm1"), Undefined)
    THEN Return(Bool(ToBoolean(Get(zs, "alarm1"))))
    ELSE LET status == toZoneStatusNumber(zs)
         IN  IF status.kind = "throw" THEN status
             ELSE Return(Bool(BitAnd(status.value.n, 1) # 0))

\* The 16-bit status words (0x0000 to 0xFFFF)
MaxStatusWord == 65535
\* Longest Buffer and data array tried
MaxBufferLength == 3
ByteSamples == {0, 1, 128, 255}
ArrayElementSamples == {0, 1, 255, 257}

SeqsUpTo(S, n) == UNION { [1..k -> S] : k \in 0..n }

RawPrimitives ==
    { Undefined, Null, Bool(FALSE), Bool(TRUE), Str(""), Str("1") }

RawNumbers ==
    { Num(n) : n \in 0..MaxStatusWord } \cup { Num(-1), Num(-2), Num(65537) }

\* Buffers of every length up to MaxBufferLength, with or without an own
\* alarm1 property
RawBuffers ==
    { With(BufferOf(b), "alarm1", a) :
        b \in SeqsUpTo(ByteSamples, MaxBufferLength),
        a \in {Undefined, Bool(FALSE), Bool(TRUE)} }

\* Objects shaped like a serialized Buffer, or nearly so
RawSerialized ==
    { With(With(With(PlainObject, "type", ty), "data", d), "alarm1", a) :
        ty \in {Str("Buffer"), Str("buffer")},
        d \in {Undefined, Str("AQA=")}
              \cup { Arr(e) : e \in SeqsUpTo(ArrayElementSamples, MaxBufferLength) },
        a \in {Undefined, Bool(FALSE), Bool(TRUE)} }

Alarm1Values ==
    { Undefined, Null, Bool(FALSE), Bool(TRUE), Num(0), Num(1), Str(""), Str("on") }
FlagValues == { Undefined, Bool(FALSE), Bool(TRUE) }

\* Bitmap objects: any of the eight flags present or missing
RawBitmaps ==
    { With(With(With(With(With(With(With(With(PlainObject,
        "alarm1", f1), "alarm2", f2), "tamper", f3), "battery", f4),
        "supervisionReports", f5), "restoreReports", f6), "trouble", f7),
        "acMains", f8) :
        f1 \in Alarm1Values, f2 \in FlagValues, f3 \in FlagValues,
        f4 \in FlagValues, f5 \in FlagValues, f6 \in FlagValues,
        f7 \in FlagValues, f8 \in FlagValues }

\* Objects with a valueOf method and/or a raw property, with or without an
\* alarm1 property
RawBoxed ==
    { With(With(With(PlainObject, "valueOf", v), "raw", r), "alarm1", a) :
        v \in { Undefined, Str("valueOf"), Fn(Self), Fn(Str("1")),
                Fn(Num(0)), Fn(Num(1)), Fn(Num(130)) },
        r \in { Undefined, Null, Str("1"), Num(0), Num(1), Num(3) },
        a \in { Undefined, Bool(FALSE), Bool(TRUE) } }

ParserInit ==
    /\ \/ zoneStatus \in RawPrimitives
       \/ zoneStatus \in RawNumbers
       \/ zoneStatus \in RawBuffers
       \/ zoneStatus \in RawSerialized
       \/ zoneStatus \in RawBitmaps
       \/ zoneStatus \in RawBoxed
    /\ parsed = NotCalled
    /\ presence = NotCalled
    /\ reparsed = NotCalled

ParserIdle ==
    /\ zoneStatus = Undefined
    /\ parsed = NotCalled
    /\ presence = NotCalled
    /\ reparsed = NotCalled

\* A caller decodes the raw value into the eight flags
CallParseZoneStatus ==
    /\ parsed = NotCalled
    /\ parsed' = parseZoneStatus(zoneStatus)
    /\ UNCHANGED <<zoneStatus, presence, reparsed, notParserVars>>

\* A caller asks whether the raw value reports presence
CallIsPresenceDetected ==
    /\ presence = NotCalled
    /\ presence' = isPresenceDetected(zoneStatus)
    /\ UNCHANGED <<zoneStatus, parsed, reparsed, notParserVars>>

\* Flags objects with all eight flags present as booleans
BooleanBitmaps ==
    { b \in RawBitmaps : \A i \in 1..Len(FlagNames) : Get(b, FlagNames[i]).t = "boolean" }

\* Round trips start from a status word or from a flags object
RoundTripInit ==
    /\ \/ zoneStatus \in RawNumbers
       \/ zoneStatus \in BooleanBitmaps
    /\ parsed = NotCalled
    /\ presence = NotCalled
    /\ reparsed = NotCalled

\* A caller hands the decoded flags object back to parseZoneStatus
CallParseZoneStatusOnFlags ==
    /\ parsed.kind = "return"
    /\ reparsed = NotCalled
    /\ reparsed' = parseZoneStatus(parsed.value)
    /\ UNCHANGED <<zoneStatus, parsed, presence, notParserVars>>

----------------------------------------------------------------------------
(* lib/flow-trigger-logic *)

\* Faulty variants: without the unchanged-state test; with null taken for
\* false; without the motion_cleared branch
determineFlowTriggerIgnoringPrevious(previousState, newState) ==
    IF StrictEquals(newState, Bool(TRUE)) THEN Str("motion_detected")
    ELSE IF StrictEquals(newState, Bool(FALSE)) THEN Str("motion_cleared")
    ELSE Null

determineFlowTriggerUnknownAsFalse(previousState, newState) ==
    IF ToBoolean(previousState) = ToBoolean(newState) THEN Null
    ELSE IF StrictEquals(newState, Bool(TRUE)) THEN Str("motion_detected")
    ELSE IF StrictEquals(newState, Bool(FALSE)) THEN Str("motion_cleared")
    ELSE Null

determineFlowTriggerOnlyOnDetection(previousState, newState) ==
    IF StrictEquals(previousState, newState) THEN Null
    ELSE IF StrictEquals(newState, Bool(TRUE)) THEN Str("motion_detected")
    ELSE Null

determineFlowTrigger(previousState, newState) ==
    IF StrictEquals(previousState, newState) THEN Null
    ELSE IF StrictEquals(newState, Bool(TRUE)) THEN Str("motion_detected")
    ELSE IF StrictEquals(newState, Bool(FALSE)) THEN Str("motion_cleared")
    ELSE Null

\* Longest run of presence reports folded through determineFlowTrigger
MaxObservations == 5

\* The state before the first report: unknown (null), or a stored boolean
TriggerInit ==
    /\ observed \in { <<Null>>, <<Bool(FALSE)>>, <<Bool(TRUE)>> }
    /\ fired = << >>

TriggerIdle ==
    /\ observed = << >>
    /\ fired = << >>

\* The caller holds the last state as previousState and passes the newly
\* reported presence as newState
CallDetermineFlowTrigger(newState) ==
    /\ Len(fired) < MaxObservations
    /\ fired' = Append(fired, determineFlowTrigger(observed[Len(observed)], newState))
    /\ observed' = Append(observed, newState)
    /\ UNCHANGED notTriggerVars

ReportPresence == CallDetermineFlowTrigger(Bool(TRUE))
ReportAbsence == CallDetermineFlowTrigger(Bool(FALSE))

----------------------------------------------------------------------------
(* lib/retry *)

\* maxRetries when the argument or option is left out
DefaultMaxRetries == 3
\* delay in ms when the option is left out
DefaultDelay == 1000

\* Largest maxRetries passed explicitly
MaxRetriesTried == 3
ScriptLength ==
    IF MaxRetriesTried > DefaultMaxRetries THEN MaxRetriesTried ELSE DefaultMaxRetries

\* How one invocation of the wrapped operation ends.
\*   "ok":          withRetrySync: returns {success: true, value}; withRetry: resolves
\*   "fail":        withRetrySync: returns {success: false, error}; withRetry: rejects
\*   "failNoError": withRetrySync: returns {success: false}; withRetry: rejects
\*                  with undefined
\*   "throw":       the operation throws synchronously
Behaviours == {"ok", "fail", "failNoError", "throw"}

\* The value and the error the k-th invocation produces
Val(k) == [t |-> "object", producedBy |-> k]
Err(k) == [t |-> "object", class |-> "Error", raisedBy |-> k]
\* new Error('Operation failed')
OperationFailed == [t |-> "object", class |-> "Error", message |-> "Operation failed"]

\* a ?? b
Coalesce(a, b) == IF a.t \in {"undefined", "null"} THEN b ELSE a
\* A default parameter value applies to undefined alone
DefaultParam(a, b) == IF a.t = "undefined" THEN b ELSE a

\* The constant maxRetries of the running function
maxRetries ==
    IF retryFn = "withRetrySync"
    THEN DefaultParam(options.maxRetries, Num(DefaultMaxRetries)).n
    ELSE Coalesce(options.maxRetries, Num(DefaultMaxRetries)).n

\* Faulty variant: a missing delay option means no delay
delayDefaultZero == Coalesce(options.delay, Num(0)).n
\* The constant delay of withRetry
delay == Coalesce(options.delay, Num(DefaultDelay)).n

\* The invocation about to be made, and how it ends
NextInvocation == Len(opCalls) + 1
ThisInvocation == Len(opCalls)

MaxRetriesArgs == { Undefined } \cup { Num(n) : n \in 0..MaxRetriesTried }
DelayArgs == { Undefined, Num(0), Num(250) }

RetryInit ==
    /\ \/ /\ retryFn = "withRetrySync"
          /\ options \in [maxRetries : MaxRetriesArgs, delay : {Undefined}]
       \/ /\ retryFn = "withRetry"
          /\ options \in [maxRetries : MaxRetriesArgs \cup {Null}, delay : DelayArgs]
    /\ opScript \in [1..ScriptLength -> Behaviours]
    /\ pc = "test"
    /\ attempt = 1
    /\ attempts = 0
    /\ lastError = Undefined
    /\ caught = Undefined
    /\ opCalls = << >>
    /\ onRetryCalls = << >>
    /\ timers = << >>
    /\ trace = << >>
    /\ outcome = NotCalled

RetryIdle ==
    /\ retryFn = "none"
    /\ options = [maxRetries |-> Undefined, delay |-> Undefined]
    /\ opScript = << >>
    /\ pc = "idle"
    /\ attempt = 0
    /\ attempts = 0
    /\ lastError = Undefined
    /\ caught = Undefined
    /\ opCalls = << >>
    /\ onRetryCalls = << >>
    /\ timers = << >>
    /\ trace = << >>
    /\ outcome = NotCalled

\* Faulty variants: one attempt too few, one too many
LoopContinuesBelowMax(a, m) == a < m
LoopContinuesOnePastMax(a, m) == a <= m + 1
\* The loop condition attempt <= maxRetries
LoopContinues(a, m) == a <= m

\* Faulty variant: the observer and the delay follow the last attempt too
RetriesRemainAfterLast(a, m) == a <= m
\* The catch clause's condition attempt < maxRetries
RetriesRemain(a, m) == a < m

\* Entries of trace, each tagged with the attempt it belongs to
Invoked(a) == [ev |-> "invoked", attempt |-> a]
Settled(a) == [ev |-> "settled", attempt |-> a]
ObserverCalled(a) == [ev |-> "onRetry", attempt |-> a]
TimerSet(a) == [ev |-> "timerSet", attempt |-> a]
TimerFired(a) == [ev |-> "timerFired", attempt |-> a]

\* Faulty variant: the first error is kept
SyncLastErrorKeepFirst(previous, error) ==
    IF previous # Undefined THEN previous
    ELSE IF ToBoolean(error) THEN error ELSE OperationFailed
\* lastError after a failed invocation of withRetrySync
SyncLastError(previous, error) ==
    IF ToBoolean(error) THEN error ELSE OperationFailed

\* withRetrySync: the for loop's test; when it fails the function returns
\* the failure outcome
SyncLoopTest ==
    /\ retryFn = "withRetrySync" /\ pc = "test"
    /\ IF LoopContinues(attempt, maxRetries)
       THEN /\ pc' = "body"
            /\ UNCHANGED outcome
       ELSE /\ pc' = "done"
            /\ outcome' = Return([success |-> FALSE, attempts |-> attempts,
                                  error |-> lastError])
    /\ UNCHANGED <<retryFn, options, opScript, attempt, attempts, lastError,
                   caught, opCalls, onRetryCalls, timers, trace, notRetryVars>>

\* withRetrySync: one pass of the loop body, operation(attempt) included
SyncAttempt ==
    /\ retryFn = "withRetrySync" /\ pc = "body"
    /\ attempts' = attempt
    /\ opCalls' = Append(opCalls, attempt)
    /\ LET k == NextInvocation
           behaviour == opScript[k]
       IN  CASE behaviour = "ok" ->
                  /\ outcome' = Return([success |-> TRUE, attempts |-> attempt,
                                        result |-> Val(k)])
                  /\ pc' = "done"
                  /\ UNCHANGED <<attempt, lastError>>
             [] behaviour = "throw" ->
                  /\ outcome' = Throw(Err(k))
                  /\ pc' = "done"
                  /\ UNCHANGED <<attempt, lastError>>
             [] OTHER ->
                  /\ lastError' = SyncLastError(lastError,
                                      IF behaviour = "fail" THEN Err(k) ELSE Undefined)
                  /\ attempt' = attempt + 1
                  /\ pc' = "test"
                  /\ UNCHANGED outcome
    /\ UNCHANGED <<retryFn, options, opScript, caught, onRetryCalls, timers,
                   trace, notRetryVars>>

\* withRetry: the for loop's test; when it fails the function resolves with
\* the failure outcome
AsyncLoopTest ==
    /\ retryFn = "withRetry" /\ pc = "test"
    /\ IF LoopContinues(attempt, maxRetries)
       THEN /\ pc' = "body"
            /\ UNCHANGED outcome
       ELSE /\ pc' = "done"
            /\ outcome' = Return([success |-> FALSE, attempts |-> attempts,
                                  error |-> lastError])
    /\ UNCHANGED <<retryFn, options, opScript, attempt, attempts, lastError,
                   caught, opCalls, onRetryCalls, timers, trace, notRetryVars>>

\* Faulty variant: operation() is called and not awaited, and the loop goes
\* on to the next attempt
AsyncInvokeWithoutAwait ==
    /\ retryFn = "withRetry" /\ pc = "body"
    /\ attempts' = attempt
    /\ opCalls' = Append(opCalls, attempt)
    /\ trace' = Append(trace, Invoked(attempt))
    /\ attempt' = attempt + 1
    /\ pc' = "test"
    /\ UNCHANGED <<retryFn, options, opScript, lastError, caught, onRetryCalls,
                   timers, outcome, notRetryVars>>

\* withRetry: attempts = attempt, then operation() is called; a synchronous
\* throw lands in the catch clause, anything else is awaited
AsyncInvoke ==
    /\ retryFn = "withRetry" /\ pc = "body"
    /\ attempts' = attempt
    /\ opCalls' = Append(opCalls, attempt)
    /\ IF opScript[NextInvocation] = "throw"
       THEN /\ pc' = "catch"
            /\ caught' = Err(NextInvocation)
            /\ trace' = trace \o << Invoked(attempt), Settled(attempt) >>
       ELSE /\ pc' = "awaiting"
            /\ trace' = Append(trace, Invoked(attempt))
            /\ UNCHANGED caught
    /\ UNCHANGED <<retryFn, options, opScript, attempt, lastError, onRetryCalls,
                   timers, outcome, notRetryVars>>

\* withRetry: the awaited operation resolves, and the function resolves
\* with the success outcome
AsyncOperationResolves ==
    /\ retryFn = "withRetry" /\ pc = "awaiting"
    /\ opScript[ThisInvocation] = "ok"
    /\ outcome' = Return([success |-> TRUE, attempts |-> attempts,
                          result |-> Val(ThisInvocation)])
    /\ pc' = "done"
    /\ trace' = Append(trace, Settled(attempt))
    /\ UNCHANGED <<retryFn, options, opScript, attempt, attempts, lastError,
                   caught, opCalls, onRetryCalls, timers, notRetryVars>>

\* withRetry: the awaited operation rejects, and control enters the catch
\* clause
AsyncOperationRejects ==
    /\ retryFn = "withRetry" /\ pc = "awaiting"
    /\ opScript[ThisInvocation] \in {"fail", "failNoError"}
    /\ caught' = IF opScript[ThisInvocation] = "fail"
                 THEN Err(ThisInvocation) ELSE Undefined
    /\ pc' = "catch"
    /\ trace' = Append(trace, Settled(attempt))
    /\ UNCHANGED <<retryFn, options, opScript, attempt, attempts, lastError,
                   opCalls, onRetryCalls, timers, outcome, notRetryVars>>

\* withRetry: the catch clause up to its await: lastError is set; before
\* the last attempt onRetry is called and, for a positive delay, a timer is
\* set and awaited
AsyncCatch ==
    /\ retryFn = "withRetry" /\ pc = "catch"
    /\ lastError' = caught
    /\ IF RetriesRemain(attempt, maxRetries)
       THEN /\ onRetryCalls' = Append(onRetryCalls, [attempt |-> attempt, error |-> caught])
            /\ IF delay > 0
               THEN /\ timers' = Append(timers, delay)
                    /\ trace' = trace \o << ObserverCalled(attempt), TimerSet(attempt) >>
                    /\ pc' = "sleeping"
                    /\ UNCHANGED attempt
               ELSE /\ trace' = Append(trace, ObserverCalled(attempt))
                    /\ attempt' = attempt + 1
                    /\ pc' = "test"
                    /\ UNCHANGED timers
       ELSE /\ attempt' = attempt + 1
            /\ pc' = "test"
            /\ UNCHANGED <<onRetryCalls, timers, trace>>
    /\ UNCHANGED <<retryFn, options, opScript, attempts, caught, opCalls,
                   outcome, notRetryVars>>

\* withRetry: the timer fires and the loop goes on to the next attempt
AsyncTimerFires ==
    /\ retryFn = "withRetry" /\ pc = "sleeping"
    /\ attempt' = attempt + 1
    /\ pc' = "test"
    /\ trace' = Append(trace, TimerFired(attempt))
    /\ UNCHANGED <<retryFn, options, opScript, attempts, lastError, caught,
                   opCalls, onRetryCalls, timers, outcome, notRetryVars>>

----------------------------------------------------------------------------
(* drivers/mtd085zb/device *)

MAX_RETRIES == 3
RETRY_DELAY == 1000

\* What a handler does, in the order it does it
SetCapability(v) == [ev |-> "setCapabilityValue", value |-> v]
Trigger(card) == [ev |-> "trigger", card |-> card]
TriggerFailed(card) == [ev |-> "triggerFailed", card |-> card]
SetAvailable == [ev |-> "setAvailable"]
SetUnavailable == [ev |-> "setUnavailable"]
ReadZoneStatus == [ev |-> "readAttributes", attribute |-> "zoneStatus"]
ReadZoneState == [ev |-> "readAttributes", attribute |-> "zoneState"]
EnrollResponse == [ev |-> "zoneEnrollResponse"]
SetStore(key, v) == [ev |-> "setStoreValue", key |-> key, value |-> v]
ConfigureCalled(a) == [ev |-> "configureIASZone", attempt |-> a]
RetryObserved(a) == [ev |-> "onRetry", attempt |-> a]
Delayed(ms) == [ev |-> "delay", ms |-> ms]
Returned(v) == [ev |-> "return", value |-> v]

\* A rejected request to the node
Rejected == Throw("Error")

\* Zone status values the sensor sends or answers a read with: numbers, a
\* Bitmap object, and a Buffer of one byte
StatusReports ==
    { Num(0), Num(1), Num(65534),
      With(PlainObject, "alarm1", Bool(TRUE)),
      BufferOf(<< 1 >>) }

\* How readAttributes(['zoneStatus']) ends
ZoneStatusReads == { Rejected } \cup { Return(s) : s \in StatusReports }

NoRun == [handler |-> "none"]

\* One handler run: its input, the capability value it found, what it did
\* and how it completed
Run(handler, input, before, effects, completion) ==
    [ handler |-> handler, input |-> input, before |-> before,
      effects |-> effects, completion |-> completion ]

\* Faulty variant: a status that could not be read counts as no presence
readCurrentZoneStatusClearingOnFailure(hasNode, current, read) ==
    IF ~hasNode \/ ~iasZoneCluster \/ read.kind = "throw"
    THEN [effects |-> << SetCapability(Bool(FALSE)) >>,
          alarmMotion |-> Bool(FALSE)]
    ELSE LET presenceDetected == isPresenceDetected(read.value)
         IN  IF presenceDetected.kind = "throw"
             THEN [effects |-> << ReadZoneStatus >>, alarmMotion |-> current]
             ELSE [effects |-> << ReadZoneStatus,
                                  SetCapability(presenceDetected.value) >>,
                   alarmMotion |-> presenceDetected.value]

\* readCurrentZoneStatus: the effects of the call and the capability value
\* it leaves.  Everything that raises inside is caught and logged.
readCurrentZoneStatus(hasNode, current, read) ==
    IF ~hasNode \/ ~iasZoneCluster
    THEN [effects |-> << >>, alarmMotion |-> current]
    ELSE IF read.kind = "throw"
    THEN [effects |-> << ReadZoneStatus >>, alarmMotion |-> current]
    ELSE LET presenceDetected == isPresenceDetected(read.value)
         IN  IF presenceDetected.kind = "throw"
             THEN [effects |-> << ReadZoneStatus >>, alarmMotion |-> current]
             ELSE IF ~StrictEquals(current, presenceDetected.value)
             THEN [effects |-> << ReadZoneStatus, SetCapability(presenceDetected.value) >>,
                   alarmMotion |-> presenceDetected.value]
             ELSE [effects |-> << ReadZoneStatus >>, alarmMotion |-> current]


\* The device as the app process finds it when it starts: the capability
\* and the store hold what an earlier run left
DeviceInit ==
    /\ initialised = FALSE
    /\ iasZoneCluster \in BOOLEAN
    /\ handlersRegistered = FALSE
    /\ polling = FALSE
    /\ alarmMotion \in { Null, Bool(FALSE), Bool(TRUE) }
    /\ available = TRUE
    /\ store \in [iasZoneEnrolled : { Null, Bool(FALSE), Bool(TRUE) },
                  cieAddressConfigured : { Null }]
    /\ connectivity = "none"
    /\ lastRun = NoRun

DeviceIdle ==
    /\ initialised = FALSE
    /\ iasZoneCluster = FALSE
    /\ handlersRegistered = FALSE
    /\ polling = FALSE
    /\ alarmMotion = Null
    /\ available = TRUE
    /\ store = [iasZoneEnrolled |-> Null, cieAddressConfigured |-> Null]
    /\ connectivity = "none"
    /\ lastRun = NoRun

\* onNodeInit: the node reference is stored; a device not marked enrolled
\* is marked enrolled; the notification handlers are registered when the
\* cluster exists; the zone status is read; polling starts.  logDeviceInfo
\* and setupAttributeReporting change nothing and catch what they raise.
OnNodeInit ==
    /\ ~initialised
    /\ \E read \in ZoneStatusReads :
          LET marking ==
                  IF ~ToBoolean(store.iasZoneEnrolled)
                  THEN << SetStore("iasZoneEnrolled", Bool(TRUE)),
                          SetStore("cieAddressConfigured", Bool(TRUE)) >>
                  ELSE << >>
              sync == readCurrentZoneStatus(TRUE, alarmMotion, read)
          IN  /\ store' = IF ~ToBoolean(store.iasZoneEnrolled)
                          THEN [iasZoneEnrolled |-> Bool(TRUE),
                                cieAddressConfigured |-> Bool(TRUE)]
                          ELSE store
              /\ alarmMotion' = sync.alarmMotion
              /\ lastRun' = Run("onNodeInit", read, alarmMotion,
                                marking \o sync.effects, "return")
    /\ initialised' = TRUE
    /\ handlersRegistered' = iasZoneCluster
    /\ polling' = TRUE
    /\ UNCHANGED <<iasZoneCluster, available, connectivity, notDeviceVars>>

\* The callback of the polling interval
Poll ==
    /\ polling
    /\ \E read \in ZoneStatusReads :
          LET sync == readCurrentZoneStatus(initialised, alarmMotion, read)
          IN  /\ alarmMotion' = sync.alarmMotion
              /\ lastRun' = Run("poll", read, alarmMotion,
                                sync.effects, "return")
    /\ UNCHANGED <<initialised, iasZoneCluster, handlersRegistered, polling,
                   available, store, connectivity, notDeviceVars>>

\* onDeleted: the polling interval is cleared
OnDeleted ==
    /\ polling' = FALSE
    /\ lastRun' = Run("onDeleted", Undefined, alarmMotion, << >>, "return")
    /\ UNCHANGED <<initialised, iasZoneCluster, handlersRegistered, alarmMotion,
                   available, store, connectivity, notDeviceVars>>

\* onOffline
OnOffline ==
    /\ available' = FALSE
    /\ connectivity' = "offline"
    /\ lastRun' = Run("onOffline", Undefined, alarmMotion,
                      << SetUnavailable >>, "return")
    /\ UNCHANGED <<initialised, iasZoneCluster, handlersRegistered, polling,
                   alarmMotion, store, notDeviceVars>>

\* Faulty variant: the zone status is read first, and a failed read is
\* raised before the device is made available
OnOnlineReadBeforeAvailable ==
    /\ connectivity' = "online"
    /\ \E read \in ZoneStatusReads :
          LET sync == readCurrentZoneStatus(initialised, alarmMotion, read)
          IN  /\ alarmMotion' = sync.alarmMotion
              /\ available' = IF read.kind = "throw" THEN available ELSE TRUE
              /\ lastRun' = Run("onOnline", read, alarmMotion,
                                IF read.kind = "throw" THEN sync.effects
                                ELSE sync.effects \o << SetAvailable >>,
                                IF read.kind = "throw" THEN "throw" ELSE "return")
    /\ UNCHANGED <<initialised, iasZoneCluster, handlersRegistered, polling,
                   store, notDeviceVars>>

\* onOnline: the device is made available, then the zone status is read
OnOnline ==
    /\ available' = TRUE
    /\ connectivity' = "online"
    /\ \E read \in ZoneStatusReads :
          LET sync == readCurrentZoneStatus(initialised, alarmMotion, read)
          IN  /\ alarmMotion' = sync.alarmMotion
              /\ lastRun' = Run("onOnline", read, alarmMotion,
                                << SetAvailable >> \o sync.effects, "return")
    /\ UNCHANGED <<initialised, iasZoneCluster, handlersRegistered, polling,
                   store, notDeviceVars>>

\* Faulty variant: a failure of the card's trigger is not caught
OnZoneStatusChangeRaisingTriggerFailure ==
    /\ handlersRegistered
    /\ \E zs \in StatusReports, triggerSucceeds \in BOOLEAN :
          LET presenceDetected == isPresenceDetected(zs)
              before == alarmMotion
          IN  IF presenceDetected.kind = "throw"
              THEN /\ lastRun' = Run("onZoneStatusChange", zs, before, << >>, "throw")
                   /\ UNCHANGED alarmMotion
              ELSE LET triggerType == determineFlowTrigger(alarmMotion,
                                                           presenceDetected.value)
                   IN  IF ~StrictEquals(triggerType, Null)
                       THEN /\ alarmMotion' = presenceDetected.value
                            /\ lastRun' = Run("onZoneStatusChange", zs, before,
                                  << SetCapability(presenceDetected.value),
                                     IF triggerSucceeds THEN Trigger(triggerType)
                                     ELSE TriggerFailed(triggerType) >>,
                                  IF triggerSucceeds THEN "return" ELSE "throw")
                       ELSE /\ lastRun' = Run("onZoneStatusChange", zs, before,
                                              << >>, "return")
                            /\ UNCHANGED alarmMotion
    /\ UNCHANGED <<initialised, iasZoneCluster, handlersRegistered, polling,
                   available, store, connectivity, notDeviceVars>>

\* onZoneStatusChange, the handler of zone status change notifications.
\* isPresenceDetected is called outside any try block; a failure of the
\* card's trigger is caught and logged.
OnZoneStatusChange ==
    /\ handlersRegistered
    /\ \E zs \in StatusReports, triggerSucceeds \in BOOLEAN :
          LET presenceDetected == isPresenceDetected(zs)
              before == alarmMotion
          IN  IF presenceDetected.kind = "throw"
              THEN /\ lastRun' = Run("onZoneStatusChange", zs, before, << >>, "throw")
                   /\ UNCHANGED alarmMotion
              ELSE LET triggerType == determineFlowTrigger(alarmMotion,
                                                           presenceDetected.value)
                   IN  IF ~StrictEquals(triggerType, Null)
                       THEN /\ alarmMotion' = presenceDetected.value
                            /\ lastRun' = Run("onZoneStatusChange", zs, before,
                                  << SetCapability(presenceDetected.value),
                                     IF triggerSucceeds THEN Trigger(triggerType)
                                     ELSE TriggerFailed(triggerType) >>,
                                  "return")
                       ELSE /\ lastRun' = Run("onZoneStatusChange", zs, before,
                                              << >>, "return")
                            /\ UNCHANGED alarmMotion
    /\ UNCHANGED <<initialised, iasZoneCluster, handlersRegistered, polling,
                   available, store, connectivity, notDeviceVars>>

\* The node's zone enroll request: the response is sent and, when that
\* worked, the device is marked enrolled
OnZoneEnrollRequest ==
    /\ handlersRegistered
    /\ \E responseSent \in BOOLEAN :
          /\ store' = IF responseSent
                      THEN [store EXCEPT !.iasZoneEnrolled = Bool(TRUE)]
                      ELSE store
          /\ lastRun' = Run("onZoneEnrollRequest", Bool(responseSent), alarmMotion,
                            IF responseSent
                            THEN << EnrollResponse, SetStore("iasZoneEnrolled", Bool(TRUE)) >>
                            ELSE << >>,
                            "return")
    /\ UNCHANGED <<initialised, iasZoneCluster, handlersRegistered, polling,
                   alarmMotion, available, connectivity, notDeviceVars>>

\* Faulty variant: an unknown capability value counts as motion
runListenerNotFalse(capabilityValue) ==
    ~StrictEquals(capabilityValue, Bool(FALSE))
\* The run listener of the is_motion_detected condition card, given what
\* args.device.getCapabilityValue('alarm_motion') returns
runListener(capabilityValue) == StrictEquals(capabilityValue, Bool(TRUE))

\* A flow evaluates the is_motion_detected condition; onNodeInit has
\* registered the listener
RunIsMotionDetected ==
    /\ initialised
    /\ lastRun' = Run("is_motion_detected", Undefined, alarmMotion,
                      << Returned(Bool(runListener(alarmMotion))) >>, "return")
    /\ UNCHANGED <<initialised, iasZoneCluster, handlersRegistered, polling,
                   alarmMotion, available, store, connectivity, notDeviceVars>>

\* What the node does during one call of configureIASZone
ConfigureEnvironments ==
    { "readRejects", "alreadyEnrolled", "responseRejects", "rereadRejects",
      "stillNotEnrolled", "enrolled" }

\* Faulty variant: the enroll response is sent whatever zoneState reads
configureIASZoneAlwaysResponding(env, st) ==
    IF ~initialised \/ ~iasZoneCluster
    THEN [ok |-> FALSE, effects |-> << >>, store |-> st]
    ELSE CASE env = "readRejects" ->
                [ok |-> FALSE, effects |-> << ReadZoneState >>, store |-> st]
           [] env = "responseRejects" ->
                [ok |-> FALSE,
                 effects |-> << ReadZoneState, EnrollResponse >>,
                 store |-> st]
           [] env \in {"rereadRejects", "stillNotEnrolled"} ->
                [ok |-> FALSE,
                 effects |-> << ReadZoneState, EnrollResponse, Delayed(2000),
                                ReadZoneState >>,
                 store |-> st]
           [] OTHER ->
                [ok |-> TRUE,
                 effects |-> << ReadZoneState, EnrollResponse, Delayed(2000),
                                ReadZoneState,
                                SetStore("iasZoneEnrolled", Bool(TRUE)),
                                SetStore("cieAddressConfigured", Bool(TRUE)) >>,
                 store |-> [iasZoneEnrolled |-> Bool(TRUE),
                            cieAddressConfigured |-> Bool(TRUE)]]

\* Faulty variant: the device is marked enrolled as soon as the enroll
\* response has been sent, before zoneState is read again
configureIASZoneMarkingOnResponse(env, st) ==
    IF ~initialised \/ ~iasZoneCluster
    THEN [ok |-> FALSE, effects |-> << >>, store |-> st]
    ELSE CASE env = "readRejects" ->
                [ok |-> FALSE, effects |-> << ReadZoneState >>, store |-> st]
           [] env = "alreadyEnrolled" ->
                [ok |-> TRUE,
                 effects |-> << ReadZoneState,
                                SetStore("iasZoneEnrolled", Bool(TRUE)) >>,
                 store |-> [st EXCEPT !.iasZoneEnrolled = Bool(TRUE)]]
           [] env = "responseRejects" ->
                [ok |-> FALSE,
                 effects |-> << ReadZoneState, EnrollResponse >>,
                 store |-> st]
           [] env \in {"rereadRejects", "stillNotEnrolled"} ->
                [ok |-> FALSE,
                 effects |-> << ReadZoneState, EnrollResponse,
                                SetStore("iasZoneEnrolled", Bool(TRUE)),
                                Delayed(2000), ReadZoneState >>,
                 store |-> [st EXCEPT !.iasZoneEnrolled = Bool(TRUE)]]
           [] OTHER ->
                [ok |-> TRUE,
                 effects |-> << ReadZoneState, EnrollResponse,
                                SetStore("iasZoneEnrolled", Bool(TRUE)),
                                Delayed(2000), ReadZoneState,
                                SetStore("cieAddressConfigured", Bool(TRUE)) >>,
                 store |-> [iasZoneEnrolled |-> Bool(TRUE),
                            cieAddressConfigured |-> Bool(TRUE)]]

\* configureIASZone: whether it resolved, the requests and writes it made
\* (a rejected request is the last of them), and the store it leaves
configureIASZone(env, st) ==
    IF ~initialised \/ ~iasZoneCluster
    THEN [ok |-> FALSE, effects |-> << >>, store |-> st]
    ELSE CASE env = "readRejects" ->
                [ok |-> FALSE, effects |-> << ReadZoneState >>, store |-> st]
           [] env = "alreadyEnrolled" ->
                [ok |-> TRUE,
                 effects |-> << ReadZoneState, SetStore("iasZoneEnrolled", Bool(TRUE)) >>,
                 store |-> [st EXCEPT !.iasZoneEnrolled = Bool(TRUE)]]
           [] env = "responseRejects" ->
                [ok |-> FALSE,
                 effects |-> << ReadZoneState, EnrollResponse >>,
                 store |-> st]
           [] env = "rereadRejects" ->
                [ok |-> FALSE,
                 effects |-> << ReadZoneState, EnrollResponse, Delayed(2000),
                                ReadZoneState >>,
                 store |-> st]
           [] env = "stillNotEnrolled" ->
                [ok |-> FALSE,
                 effects |-> << ReadZoneState, EnrollResponse, Delayed(2000),
                                ReadZoneState >>,
                 store |-> st]
           [] OTHER ->
                [ok |-> TRUE,
                 effects |-> << ReadZoneState, EnrollResponse, Delayed(2000),
                                ReadZoneState,
                                SetStore("iasZoneEnrolled", Bool(TRUE)),
                                SetStore("cieAddressConfigured", Bool(TRUE)) >>,
                 store |-> [iasZoneEnrolled |-> Bool(TRUE),
                            cieAddressConfigured |-> Bool(TRUE)]]

\* configureIASZoneWithRetry: withRetry's loop around configureIASZone,
\* with maxRetries MAX_RETRIES and delay RETRY_DELAY
RECURSIVE configureIASZoneWithRetry(_, _, _, _)
configureIASZoneWithRetry(script, a, st, effects) ==
    IF ~LoopContinues(a, MAX_RETRIES)
    THEN [success |-> FALSE, attempts |-> a - 1, store |-> st, effects |-> effects]
    ELSE LET r == configureIASZone(script[a], st)
             done == effects \o << ConfigureCalled(a) >> \o r.effects
         IN  IF r.ok
             THEN [success |-> TRUE, attempts |-> a, store |-> r.store,
                   effects |-> done]
             ELSE configureIASZoneWithRetry(script, a + 1, r.store,
                      IF RetriesRemain(a, MAX_RETRIES)
                      THEN done \o << RetryObserved(a), Delayed(RETRY_DELAY) >>
                      ELSE done)

\* onAdded, called once when the device has been paired: the zone is
\* configured with retries; a failure outcome is raised as an error, logged
\* and raised again
OnAdded ==
    /\ lastRun.handler \in {"none", "onNodeInit"}
    /\ \E script \in [1..MAX_RETRIES -> ConfigureEnvironments] :
          LET result == configureIASZoneWithRetry(script, 1, store, << >>)
          IN  /\ store' = result.store
              /\ lastRun' = Run("onAdded", SubSeq(script, 1, result.attempts), alarmMotion,
                                result.effects,
                                IF result.success THEN "return" ELSE "throw")
    /\ UNCHANGED <<initialised, iasZoneCluster, handlersRegistered, polling,
                   alarmMotion, available, connectivity, notDeviceVars>>

----------------------------------------------------------------------------
(* drivers/mtd085zb/device: handlers that overlap *)

\* Every handler is an async function: it runs to its next await, and any
\* other handler may run before the awaited request settles.  The actions
\* below are those pieces.  A request answered by the node is continued in
\* the step that delivers the answer.

\* Where one handler stands: "idle" when it is not running, else what it
\* awaits, and the value of the capability write it awaits
Handler(at, v) == [pc |-> at, value |-> v]

\* Zone status values of a healthy sensor: bit 0 clear, bit 0 set
PresenceReports == { Num(0), Num(1) }

\* No handler has started and the device has delivered nothing
NoHandlerRunning ==
    /\ nodeInit = "notStarted"
    /\ tasks = [t \in {"notification", "tick", "initialRead", "reread"} |->
                   Handler("idle", Null)]
    /\ delivered = Null
    /\ deleted = FALSE
    /\ tickAfterDelete = FALSE

\* await this.setCapabilityValue('alarm_motion', v) in handler t: the
\* device object holds the new value either from the call on or from the
\* moment the write resolves
CallSetCapabilityValue(t, v) ==
    \E applied \in BOOLEAN :
       /\ alarmMotion' = IF applied THEN v ELSE alarmMotion
       /\ tasks' = [tasks EXCEPT ![t] =
                       Handler(IF applied THEN "written" ELSE "writing", v)]

\* onNodeInit up to its first await that leaves the process: the device is
\* marked enrolled, the notification handlers are registered, and with a
\* cluster the zone status is requested.  With nothing to wait for it runs
\* through and starts polling.
NodeInitBegins ==
    /\ nodeInit = "notStarted"
    /\ initialised' = TRUE
    /\ handlersRegistered' = iasZoneCluster
    /\ store' = IF ~ToBoolean(store.iasZoneEnrolled)
                THEN [iasZoneEnrolled |-> Bool(TRUE),
                      cieAddressConfigured |-> Bool(TRUE)]
                ELSE store
    /\ IF iasZoneCluster \/ ~ToBoolean(store.iasZoneEnrolled)
       THEN /\ nodeInit' = "awaiting"
            /\ tasks' = IF iasZoneCluster
                        THEN [tasks EXCEPT !["initialRead"] =
                                  Handler("reading", Null)]
                        ELSE tasks
            /\ UNCHANGED polling
       ELSE /\ nodeInit' = "done"
            /\ polling' = TRUE
            /\ UNCHANGED tasks
    /\ UNCHANGED <<iasZoneCluster, alarmMotion, available, connectivity,
                   lastRun, delivered, deleted, tickAfterDelete,
                   matcherVars, parserVars, triggerVars, retryVars,
                   manifestVars, localizationVars>>

\* onNodeInit after readCurrentZoneStatus has returned: polling starts
NodeInitFinishes ==
    /\ nodeInit = "awaiting"
    /\ tasks["initialRead"].pc = "idle"
    /\ nodeInit' = "done"
    /\ polling' = TRUE
    /\ UNCHANGED <<initialised, iasZoneCluster, handlersRegistered, alarmMotion,
                   available, store, connectivity, lastRun,
                   tasks, delivered, deleted, tickAfterDelete,
                   matcherVars, parserVars, triggerVars, retryVars,
                   manifestVars, localizationVars>>

\* onDeleted: the polling interval is cleared if there is one
Deleted ==
    /\ nodeInit # "notStarted"
    /\ ~deleted
    /\ deleted' = TRUE
    /\ polling' = FALSE
    /\ UNCHANGED <<initialised, iasZoneCluster, handlersRegistered, alarmMotion,
                   available, store, connectivity, lastRun,
                   nodeInit, tasks, delivered, tickAfterDelete,
                   matcherVars, parserVars, triggerVars, retryVars,
                   manifestVars, localizationVars>>

\* The callback of the polling interval begins: with a cluster the zone
\* status is requested
TickBegins ==
    /\ polling
    /\ tasks["tick"].pc = "idle"
    /\ tickAfterDelete' = (tickAfterDelete \/ deleted)
    /\ tasks' = IF iasZoneCluster
                THEN [tasks EXCEPT !["tick"] = Handler("reading", Null)]
                ELSE tasks
    /\ UNCHANGED <<initialised, iasZoneCluster, handlersRegistered, polling,
                   alarmMotion, available, store, connectivity, lastRun,
                   nodeInit, delivered, deleted,
                   matcherVars, parserVars, triggerVars, retryVars,
                   manifestVars, localizationVars>>

\* onOnline up to the await in readCurrentZoneStatus: the device is made
\* available and with a cluster the zone status is requested
RereadBegins ==
    /\ nodeInit = "done"
    /\ tasks["reread"].pc = "idle"
    /\ available' = TRUE
    /\ connectivity' = "online"
    /\ tasks' = IF iasZoneCluster
                THEN [tasks EXCEPT !["reread"] = Handler("reading", Null)]
                ELSE tasks
    /\ UNCHANGED <<initialised, iasZoneCluster, handlersRegistered, polling,
                   alarmMotion, store, lastRun,
                   nodeInit, delivered, deleted, tickAfterDelete,
                   matcherVars, parserVars, triggerVars, retryVars,
                   manifestVars, localizationVars>>

\* The request readAttributes(['zoneStatus']) of reader t settles.  A
\* rejection is caught; an answer is compared with the capability, which
\* is written when they differ.
ReadSettles(t) ==
    /\ tasks[t].pc = "reading"
    /\ \E read \in { Rejected } \cup { Return(s) : s \in PresenceReports } :
          IF read.kind = "throw"
          THEN /\ tasks' = [tasks EXCEPT ![t] = Handler("idle", Null)]
               /\ UNCHANGED <<alarmMotion, delivered>>
          ELSE /\ delivered' = read.value
               /\ LET presenceDetected == isPresenceDetected(read.value).value
                  IN  IF ~StrictEquals(alarmMotion, presenceDetected)
                      THEN CallSetCapabilityValue(t, presenceDetected)
                      ELSE /\ tasks' = [tasks EXCEPT ![t] = Handler("idle", Null)]
                           /\ UNCHANGED alarmMotion
    /\ UNCHANGED <<initialised, iasZoneCluster, handlersRegistered, polling,
                   available, store, connectivity, lastRun,
                   nodeInit, deleted, tickAfterDelete,
                   matcherVars, parserVars, triggerVars, retryVars,
                   manifestVars, localizationVars>>

\* onZoneStatusChange up to its first await: the capability is written
\* when determineFlowTrigger names a card
ZoneStatusNotified ==
    /\ handlersRegistered
    /\ tasks["notification"].pc = "idle"
    /\ \E zs \in PresenceReports :
          /\ delivered' = zs
          /\ LET presenceDetected == isPresenceDetected(zs).value
                 triggerType == determineFlowTrigger(alarmMotion, presenceDetected)
             IN  IF ~StrictEquals(triggerType, Null)
                 THEN CallSetCapabilityValue("notification", presenceDetected)
                 ELSE UNCHANGED <<alarmMotion, tasks>>
    /\ UNCHANGED <<initialised, iasZoneCluster, handlersRegistered, polling,
                   available, store, connectivity, lastRun,
                   nodeInit, deleted, tickAfterDelete,
                   matcherVars, parserVars, triggerVars, retryVars,
                   manifestVars, localizationVars>>

\* The capability write of handler t resolves: the notification handler
\* goes on to trigger its card, a reader returns
WriteSettles(t) ==
    /\ tasks[t].pc \in { "writing", "written" }
    /\ alarmMotion' = IF tasks[t].pc = "writing" THEN tasks[t].value
                      ELSE alarmMotion
    /\ tasks' = [tasks EXCEPT ![t] = IF t = "notification"
                                     THEN Handler("triggering", Null)
                                     ELSE Handler("idle", Null)]
    /\ UNCHANGED <<initialised, iasZoneCluster, handlersRegistered, polling,
                   available, store, connectivity, lastRun,
                   nodeInit, delivered, deleted, tickAfterDelete,
                   matcherVars, parserVars, triggerVars, retryVars,
                   manifestVars, localizationVars>>

\* The card's trigger settles either way and onZoneStatusChange returns
TriggerSettles ==
    /\ tasks["notification"].pc = "triggering"
    /\ tasks' = [tasks EXCEPT !["notification"] = Handler("idle", Null)]
    /\ UNCHANGED <<deviceVars, nodeInit, delivered, deleted, tickAfterDelete,
                   matcherVars, parserVars, triggerVars, retryVars,
                   manifestVars, localizationVars>>

----------------------------------------------------------------------------
(* test/property/manifest.property.test *)

REQUIRED_FIELDS ==
    << "id", "version", "compatibility", "sdk",
       "name", "description", "category", "drivers" >>

\* The number NaN
NaN == [t |-> "number", nan |-> TRUE]
IsNaN(v) == v.t = "number" /\ "nan" \in DOMAIN v

\* ToNumber(v).  Of the strings used here a numeric literal gives its value,
\* the empty string 0, anything else NaN; a plain object converts through
\* "[object Object]"
ToNumber(v) ==
    CASE v.t = "undefined" -> NaN
      [] v.t = "null" -> Num(0)
      [] v.t = "boolean" -> Num(IF v.b THEN 1 ELSE 0)
      [] v.t = "number" -> v
      [] v.t = "string" ->
            CASE v.s \in {"", "0"} -> Num(0)
              [] v.s = "1" -> Num(1)
              [] v.s = "2" -> Num(2)
              [] v.s = "3" -> Num(3)
              [] v.s = "4" -> Num(4)
              [] OTHER -> NaN
      [] OTHER -> NaN

\* v < k for a number k: both sides are converted to numbers, and a
\* comparison with NaN is false
LessThan(v, k) ==
    LET n == ToNumber(v) IN
    IF IsNaN(n) THEN FALSE ELSE n.n < k

\* `${v}` for the values of sdk that the comparison judges below 3
TemplateString(v) ==
    CASE v.t = "undefined" -> "undefined"
      [] v.t = "null" -> "null"
      [] v.t = "boolean" -> IF v.b THEN "true" ELSE "false"
      [] v.t = "number" -> IF IsNaN(v) THEN "NaN" ELSE << "0", "1", "2", "3", "4" >>[v.n + 1]
      [] v.t = "string" -> v.s
      [] OTHER -> "[object Object]"

\* name in obj, for an object without such a property on its prototype
HasProperty(obj, name) == name \in DOMAIN obj

\* What the fields other than sdk hold
FieldSample ==
    [f \in {"id", "version", "compatibility", "name", "description",
            "category", "drivers"} |->
        CASE f = "id" -> Str("com.test.app")
          [] f = "version" -> Str("1.0.0")
          [] f = "compatibility" -> Str(">=5.0.0")
          [] f = "name" -> With(PlainObject, "en", Str("Test App"))
          [] f = "description" -> With(PlainObject, "en", Str("Test Description"))
          [] f = "category" -> With(PlainObject, "0", Str("security"))
          [] f = "drivers" -> PlainObject]

\* Values tried for sdk
SdkValues ==
    { Undefined, Null, Bool(TRUE), NaN, Num(0), Num(1), Num(2), Num(3),
      Num(4), Str(""), Str("2"), Str("3"), Str("latest"), PlainObject }

RECURSIVE ManifestOf(_, _, _)
\* The object whose own properties are the fields in present, sdk holding
\* sdk; `in` sees a property that holds undefined
ManifestOf(present, sdk, i) ==
    IF i > Len(REQUIRED_FIELDS) THEN PlainObject
    ELSE LET f == REQUIRED_FIELDS[i]
             rest == ManifestOf(present, sdk, i + 1)
         IN  IF f \notin present THEN rest
             ELSE IF f = "sdk" THEN (f :> sdk) @@ rest
             ELSE (f :> FieldSample[f]) @@ rest

ManifestValues ==
    { Undefined, Null, Num(3), Str("manifest") }
    \cup { ManifestOf(present, sdk, 1) :
              present \in SUBSET { REQUIRED_FIELDS[i] :
                                      i \in 1..Len(REQUIRED_FIELDS) },
              sdk \in SdkValues }

\* An error message: the pieces of the template string, in order
MissingFieldError(field) == << "Missing required field: ", field >>
SdkVersionError(sdk) ==
    << "SDK version must be >= 3, got ", TemplateString(sdk) >>

\* validateManifest(manifest): `in` raises a TypeError when its right-hand
\* side is not an object
validateManifest(m) ==
    IF m.t # "object" THEN Throw("TypeError")
    ELSE
    LET missing == SelectSeq(REQUIRED_FIELDS, LAMBDA f : ~HasProperty(m, f))
        missingErrors ==
            [i \in 1..Len(missing) |-> MissingFieldError(missing[i])]
        errors ==
            IF HasProperty(m, "sdk") /\ LessThan(m.sdk, 3)
            THEN Append(missingErrors, SdkVersionError(m.sdk))
            ELSE missingErrors
    IN  Return([valid |-> Len(errors) = 0, errors |-> errors])

ManifestInit ==
    /\ manifest \in ManifestValues
    /\ manifestResult = NotCalled

ManifestIdle ==
    /\ manifest = Undefined
    /\ manifestResult = NotCalled

CallValidateManifest ==
    /\ manifestResult = NotCalled
    /\ manifestResult' = validateManifest(manifest)
    /\ UNCHANGED <<manifest, notManifestVars>>

----------------------------------------------------------------------------
(* test/property/localization.property.test *)

REQUIRED_KEYS ==
    << "app.name",
       "app.description",
       "device.name",
       "flow.triggers.motion_detected.title",
       "flow.triggers.motion_cleared.title",
       "flow.conditions.is_motion_detected.title" >>

\* keyPath.split('.') for the required keys
Split ==
    [k \in { REQUIRED_KEYS[i] : i \in 1..Len(REQUIRED_KEYS) } |->
        CASE k = "app.name" -> << "app", "name" >>
          [] k = "app.description" -> << "app", "description" >>
          [] k = "device.name" -> << "device", "name" >>
          [] k = "flow.triggers.motion_detected.title" ->
                << "flow", "triggers", "motion_detected", "title" >>
          [] k = "flow.triggers.motion_cleared.title" ->
                << "flow", "triggers", "motion_cleared", "title" >>
          [] k = "flow.conditions.is_motion_detected.title" ->
                << "flow", "conditions", "is_motion_detected", "title" >>]

\* The strings of a locale file are sequences of characters here, so that
\* trim is computed
WhiteSpace == { " ", "\t", "\n", "\r" }

RECURSIVE TrimStart(_)
TrimStart(s) ==
    IF s # <<>> /\ Head(s) \in WhiteSpace THEN TrimStart(Tail(s)) ELSE s

RECURSIVE TrimEnd(_)
TrimEnd(s) ==
    IF s # <<>> /\ s[Len(s)] \in WhiteSpace
    THEN TrimEnd(SubSeq(s, 1, Len(s) - 1))
    ELSE s

\* A faulty trim that returns the string as it is
TrimKeepingWhiteSpace(s) == s

\* s.trim()
Trim(s) == TrimEnd(TrimStart(s))

RECURSIVE Walk(_, _, _)
\* The loop of getNestedValue from the i-th key on
Walk(current, keys, i) ==
    IF i > Len(keys) THEN current
    ELSE IF current = Null \/ current = Undefined \/ TypeOf(current) # "object"
    THEN Undefined
    ELSE Walk(IF keys[i] \in DOMAIN current THEN current[keys[i]]
              ELSE Undefined,
              keys, i + 1)

getNestedValue(obj, keyPath) == Walk(obj, Split[keyPath], 1)

MissingKeyError(keyPath) == << "Missing required key: ", keyPath >>
NotAStringError(keyPath, value) ==
    << "Key ", keyPath, " must be a string, got ", TypeOf(value) >>
EmptyValueError(keyPath) == << "Key ", keyPath, " must not be empty" >>

\* The errors that one pass of the loop of validateLocalization pushes
KeyErrors(loc, keyPath) ==
    LET value == getNestedValue(loc, keyPath) IN
    IF value = Undefined THEN << MissingKeyError(keyPath) >>
    ELSE IF TypeOf(value) # "string" THEN << NotAStringError(keyPath, value) >>
    ELSE IF Len(Trim(value.s)) = 0 THEN << EmptyValueError(keyPath) >>
    ELSE << >>

RECURSIVE LocalizationErrors(_, _)
LocalizationErrors(loc, i) ==
    IF i > Len(REQUIRED_KEYS) THEN << >>
    ELSE KeyErrors(loc, REQUIRED_KEYS[i]) \o LocalizationErrors(loc, i + 1)

validateLocalization(loc) ==
    LET errors == LocalizationErrors(loc, 1) IN
    Return([valid |-> Len(errors) = 0, errors |-> errors])

\* Values tried at the end of each required key path
LeafValues ==
    { Undefined, Null, Str(<< >>), Str(<< " " >>), Str(<< "T" >>) }

\* Values tried in the place of one object on the way, or of one string
OddValues ==
    { Undefined, Null, Num(0), Bool(TRUE), Str(<< "T", " " >>),
      Str(<< "\t", "\n" >>), PlainObject }

\* The locale object with the given values at the six key paths
LocaleOf(v) ==
    LET app == With(With(PlainObject, "name", v[1]), "description", v[2])
        dev == With(PlainObject, "name", v[3])
        detected == With(PlainObject, "title", v[4])
        cleared == With(PlainObject, "title", v[5])
        isDetected == With(PlainObject, "title", v[6])
        triggers == With(With(PlainObject, "motion_detected", detected),
                         "motion_cleared", cleared)
        conditions == With(PlainObject, "is_motion_detected", isDetected)
        flow == With(With(PlainObject, "triggers", triggers),
                     "conditions", conditions)
    IN  With(With(With(PlainObject, "app", app), "device", dev), "flow", flow)

RECURSIVE Replace(_, _, _, _)
\* obj with the value at keys[i..] replaced by v
Replace(obj, keys, i, v) ==
    IF i > Len(keys) THEN v
    ELSE LET k == keys[i]
             rest == [n \in DOMAIN obj \ {k} |-> obj[n]]
         IN  With(rest, k, Replace(obj[k], keys, i + 1, v))

\* Locale objects with every combination of leaf values, and complete ones
\* with the object or string at one path replaced
LocalizationValues ==
    LET complete == LocaleOf([i \in 1..6 |-> Str(<< "T" >>)])
        paths == UNION { { SubSeq(Split[k], 1, n) : n \in 1..Len(Split[k]) } :
                         k \in DOMAIN Split }
    IN  { LocaleOf(v) : v \in [1..6 -> LeafValues] }
        \cup { Replace(complete, p, 1, v) : p \in paths, v \in OddValues }
        \cup { Undefined, Null, Str(<< "T" >>) }

LocalizationInit ==
    /\ localization \in LocalizationValues
    /\ localizationResult = NotCalled

LocalizationIdle ==
    /\ localization = Undefined
    /\ localizationResult = NotCalled

CallValidateLocalization ==
    /\ localizationResult = NotCalled
    /\ localizationResult' = validateLocalization(localization)
    /\ UNCHANGED <<localization, notLocalizationVars>>

----------------------------------------------------------------------------
(* Specifications *)

MatcherSpecInit ==
    /\ MatcherInit /\ ParserIdle /\ TriggerIdle /\ RetryIdle /\ DeviceIdle
    /\ ManifestIdle /\ LocalizationIdle /\ NoHandlerRunning
MatcherNext ==
    \/ CallIsMatchingDevice
    \/ DiscoverDevice
MatcherSpec == MatcherSpecInit /\ [][MatcherNext]_vars

ParserSpecInit ==
    /\ ParserInit /\ MatcherIdle /\ TriggerIdle /\ RetryIdle /\ DeviceIdle
    /\ ManifestIdle /\ LocalizationIdle /\ NoHandlerRunning
ParserNext ==
    \/ CallParseZoneStatus
    \/ CallIsPresenceDetected
ParserSpec == ParserSpecInit /\ [][ParserNext]_vars

RoundTripSpecInit ==
    /\ RoundTripInit /\ MatcherIdle /\ TriggerIdle /\ RetryIdle /\ DeviceIdle
    /\ ManifestIdle /\ LocalizationIdle /\ NoHandlerRunning
RoundTripNext ==
    \/ CallParseZoneStatus
    \/ CallParseZoneStatusOnFlags
RoundTripSpec == RoundTripSpecInit /\ [][RoundTripNext]_vars

TriggerSpecInit ==
    /\ TriggerInit /\ MatcherIdle /\ ParserIdle /\ RetryIdle /\ DeviceIdle
    /\ ManifestIdle /\ LocalizationIdle /\ NoHandlerRunning
TriggerNext ==
    \/ ReportPresence
    \/ ReportAbsence
TriggerSpec == TriggerSpecInit /\ [][TriggerNext]_vars

RetrySpecInit ==
    /\ RetryInit /\ MatcherIdle /\ ParserIdle /\ TriggerIdle /\ DeviceIdle
    /\ ManifestIdle /\ LocalizationIdle /\ NoHandlerRunning
RetryNext ==
    \/ SyncLoopTest
    \/ SyncAttempt
    \/ AsyncLoopTest
    \/ AsyncInvoke
    \/ AsyncOperationResolves
    \/ AsyncOperationRejects
    \/ AsyncCatch
    \/ AsyncTimerFires
RetrySpec == RetrySpecInit /\ [][RetryNext]_vars

\* The retry helpers when nothing stalls: the function takes its next step,
\* an awaited operation settles, a timer that was set fires
RetryFairSpec ==
    /\ RetrySpecInit
    /\ [][RetryNext]_vars
    /\ WF_vars(SyncLoopTest)
    /\ WF_vars(SyncAttempt)
    /\ WF_vars(AsyncLoopTest)
    /\ WF_vars(AsyncInvoke)
    /\ WF_vars(AsyncOperationResolves)
    /\ WF_vars(AsyncOperationRejects)
    /\ WF_vars(AsyncCatch)
    /\ WF_vars(AsyncTimerFires)

DeviceSpecInit ==
    /\ DeviceInit /\ MatcherIdle /\ ParserIdle /\ TriggerIdle /\ RetryIdle
    /\ ManifestIdle /\ LocalizationIdle /\ NoHandlerRunning
DeviceNext ==
    \/ OnNodeInit
    \/ OnAdded
    \/ OnZoneStatusChange
    \/ OnZoneEnrollRequest
    \/ Poll
    \/ OnOffline
    \/ OnOnline
    \/ OnDeleted
    \/ RunIsMotionDetected
DeviceSpec == DeviceSpecInit /\ [][DeviceNext]_vars

OverlapSpecInit ==
    /\ DeviceInit /\ NoHandlerRunning
    /\ MatcherIdle /\ ParserIdle /\ TriggerIdle /\ RetryIdle
    /\ ManifestIdle /\ LocalizationIdle
OverlapNext ==
    \/ NodeInitBegins
    \/ NodeInitFinishes
    \/ Deleted
    \/ TickBegins
    \/ RereadBegins
    \/ \E t \in { "tick", "initialRead", "reread" } : ReadSettles(t)
    \/ ZoneStatusNotified
    \/ \E t \in { "notification", "tick", "initialRead", "reread" } :
          WriteSettles(t)
    \/ TriggerSettles
OverlapSpec == OverlapSpecInit /\ [][OverlapNext]_vars

ManifestSpecInit ==
    /\ ManifestInit /\ MatcherIdle /\ ParserIdle /\ TriggerIdle /\ RetryIdle
    /\ DeviceIdle /\ LocalizationIdle /\ NoHandlerRunning
ManifestNext ==
    \/ CallValidateManifest
ManifestSpec == ManifestSpecInit /\ [][ManifestNext]_vars

LocalizationSpecInit ==
    /\ LocalizationInit /\ MatcherIdle /\ ParserIdle /\ TriggerIdle /\ RetryIdle
    /\ DeviceIdle /\ ManifestIdle /\ NoHandlerRunning
LocalizationNext ==
    \/ CallValidateLocalization
LocalizationSpec == LocalizationSpecInit /\ [][LocalizationNext]_vars

----------------------------------------------------------------------------
(* Device matcher properties *)

\* C1: isMatchingDevice(d) returns true if and only if d is a non-null
\* object (typeof 'object') whose modelId is exactly "TS0225" and whose
\* manufacturerName is exactly "_TZ321C_fkzihax8"; every other value gives
\* false.
MatchIffBothIdentifiersMatch ==
    matchResult # NotCalled =>
        /\ matchResult.kind = "return"
        /\ matchResult.value \in {Bool(TRUE), Bool(FALSE)}
        /\ matchResult.value = Bool(TRUE) <=>
              /\ device.t = "object"
              /\ device.modelId = [t |-> "string", s |-> "TS0225"]
              /\ device.manufacturerName = [t |-> "string", s |-> "_TZ321C_fkzihax8"]

\* The matching record has been judged a match
MatchingDeviceJudged ==
    /\ matchResult = Return(Bool(TRUE))
    /\ device = DeviceObject("object", Str("TS0225"), Str("_TZ321C_fkzihax8"))

----------------------------------------------------------------------------
(* Zone status parser properties *)

\* Bit i of a non-negative status word
BitSet(n, i) == (n \div (2 ^ i)) % 2 = 1

IsStatusWord(v) == v.t = "number" /\ v.n \in 0..MaxStatusWord

\* C2: for every integer status word s in 0..0xFFFF, parseZoneStatus(s)
\* returns the eight flags alarm1, alarm2, tamper, battery,
\* supervisionReports, restoreReports, trouble and acMains, each true
\* exactly when the bit of s under its mask 0x01 .. 0x80 is set.
ParseExtractsEveryBit ==
    (parsed # NotCalled /\ IsStatusWord(zoneStatus)) =>
        /\ parsed.kind = "return"
        /\ DOMAIN parsed.value =
              { "t", "alarm1", "alarm2", "tamper", "battery",
                "supervisionReports", "restoreReports", "trouble", "acMains" }
        /\ parsed.value.alarm1 = Bool(BitSet(zoneStatus.n, 0))
        /\ parsed.value.alarm2 = Bool(BitSet(zoneStatus.n, 1))
        /\ parsed.value.tamper = Bool(BitSet(zoneStatus.n, 2))
        /\ parsed.value.battery = Bool(BitSet(zoneStatus.n, 3))
        /\ parsed.value.supervisionReports = Bool(BitSet(zoneStatus.n, 4))
        /\ parsed.value.restoreReports = Bool(BitSet(zoneStatus.n, 5))
        /\ parsed.value.trouble = Bool(BitSet(zoneStatus.n, 6))
        /\ parsed.value.acMains = Bool(BitSet(zoneStatus.n, 7))

\* The word 0xFF81 has been parsed: alarm1 and acMains set, bits 8-15 set
StatusWordParsed ==
    /\ zoneStatus = Num(65409)
    /\ parsed.kind = "return"
    /\ parsed.value.alarm1 = Bool(TRUE)
    /\ parsed.value.acMains = Bool(TRUE)
    /\ parsed.value.trouble = Bool(FALSE)

\* C3: for every raw status value of any shape, also one that matches more
\* than one shape at once, isPresenceDetected(raw) equals
\* parseZoneStatus(raw).alarm1.
PresenceEqualsParsedAlarm1 ==
    (parsed # NotCalled /\ presence # NotCalled) =>
        IF parsed.kind = "return" /\ presence.kind = "return"
        THEN presence.value = parsed.value.alarm1
        ELSE presence.kind = parsed.kind

\* The shapes the parser is written for
IsRecognisedShape(v) ==
    \/ v.t = "number"
    \/ IsBuffer(v)
    \/ v.t = "object" /\ Get(v, "type") = Str("Buffer") /\ IsArray(Get(v, "data"))
    \/ v.t = "object" /\ Get(v, "alarm1") # Undefined
    \/ v.t = "object" /\ Get(v, "valueOf").t = "function"
                      /\ Get(v, "valueOf").ret.t = "number"
    \/ v.t = "object" /\ Get(v, "raw").t = "number"

AllFlagsFalse(flags) ==
    \A i \in 1..Len(FlagNames) : flags[FlagNames[i]] = Bool(FALSE)

\* C4: parseZoneStatus and isPresenceDetected return a result without
\* raising for every input value, byte sequences and data arrays of length
\* 0 or 1 included; every input that is not one of the recognised shapes
\* yields all eight flags false and presence false.
ParserNeverRaises ==
    /\ parsed # NotCalled =>
          /\ parsed.kind = "return"
          /\ ~IsRecognisedShape(zoneStatus) => AllFlagsFalse(parsed.value)
    /\ presence # NotCalled =>
          /\ presence.kind = "return"
          /\ ~IsRecognisedShape(zoneStatus) => presence.value = Bool(FALSE)

----------------------------------------------------------------------------
(* Flow trigger properties *)

\* The i-th call was determineFlowTrigger(observed[i], observed[i+1])
Calls == 1..Len(fired)

\* C5: determineFlowTrigger(previous, next) returns 'motion_detected' if and
\* only if next is true and previous is not equal to next, for previous in
\* {null, false, true} and next in {false, true}; null followed by true
\* yields 'motion_detected'.
DetectedIffChangeToTrue ==
    \A i \in Calls :
        fired[i] = Str("motion_detected") <=>
            (observed[i + 1] = Bool(TRUE) /\ observed[i] # observed[i + 1])

\* An unknown state followed by true has fired motion_detected
DetectedFromUnknown ==
    /\ Len(fired) >= 1
    /\ observed[1] = Null /\ observed[2] = Bool(TRUE)
    /\ fired[1] = Str("motion_detected")

\* C6: determineFlowTrigger(previous, next) returns 'motion_cleared' if and
\* only if next is false and previous is not equal to next, for previous in
\* {null, false, true} and next in {false, true}; null followed by false
\* yields 'motion_cleared'.
ClearedIffChangeToFalse ==
    \A i \in Calls :
        fired[i] = Str("motion_cleared") <=>
            (observed[i + 1] = Bool(FALSE) /\ observed[i] # observed[i + 1])

\* An unknown state followed by false has fired motion_cleared
ClearedFromUnknown ==
    /\ Len(fired) >= 1
    /\ observed[1] = Null /\ observed[2] = Bool(FALSE)
    /\ fired[1] = Str("motion_cleared")

\* C7: determineFlowTrigger(previous, next) returns no trigger (null) if and
\* only if previous equals next; for previous in {null, false, true} and
\* next in {false, true} these are exactly false->false and true->true.
NoTriggerIffUnchanged ==
    \A i \in Calls :
        /\ fired[i] = Null <=> observed[i] = observed[i + 1]
        /\ fired[i] = Null <=>
              << observed[i], observed[i + 1] >> \in
                  { << Bool(FALSE), Bool(FALSE) >>, << Bool(TRUE), Bool(TRUE) >> }

\* Both unchanged pairs have been seen, each firing nothing
UnchangedPairsSeen ==
    \E i, j \in Calls :
        /\ observed[i] = Bool(FALSE) /\ observed[i + 1] = Bool(FALSE) /\ fired[i] = Null
        /\ observed[j] = Bool(TRUE) /\ observed[j + 1] = Bool(TRUE) /\ fired[j] = Null

----------------------------------------------------------------------------
(* Retry properties *)

Min(a, b) == IF a < b THEN a ELSE b

\* An invocation that ends this way reports a failure to the running
\* function: withRetrySync reads the returned success flag, withRetry
\* catches what the operation throws or rejects with
Fails(behaviour) ==
    IF retryFn = "withRetrySync"
    THEN behaviour \in {"fail", "failNoError"}
    ELSE behaviour \in {"fail", "failNoError", "throw"}

\* The operation fails its first k invocations and then succeeds
FailsThenSucceeds(k) ==
    /\ \A i \in 1..k : Fails(opScript[i])
    /\ k < ScriptLength => opScript[k + 1] = "ok"

\* C8: for withRetrySync and withRetry alike, for every maxRetries >= 1 and
\* every k >= 0, an operation that fails its first k invocations and then
\* succeeds yields attempts = k+1 and success = true when k < maxRetries,
\* and attempts = maxRetries and success = false when k >= maxRetries.
AttemptsCountingLaw ==
    \A k \in 0..ScriptLength :
        (pc = "done" /\ maxRetries >= 1 /\ FailsThenSucceeds(k)) =>
            /\ outcome.kind = "return"
            /\ outcome.value.attempts = Min(k + 1, maxRetries)
            /\ outcome.value.success = (k < maxRetries)

\* withRetry has succeeded on the third of three attempts, and so k = 2
SucceededOnThirdAttempt ==
    /\ retryFn = "withRetry" /\ pc = "done"
    /\ maxRetries = 3
    /\ FailsThenSucceeds(2)
    /\ outcome.kind = "return"
    /\ outcome.value.success /\ outcome.value.attempts = 3

\* Every one of the maxRetries attempts fails
AllAttemptsFail == \A i \in 1..maxRetries : Fails(opScript[i])

\* C9: when every one of the maxRetries attempts fails, the failure
\* outcome's error is the error of the final attempt (attempt number
\* maxRetries), not of the first or any earlier attempt, in both variants.
ErrorIsFromFinalAttempt ==
    (pc = "done" /\ maxRetries >= 1 /\ AllAttemptsFail) =>
        /\ outcome.kind = "return"
        /\ ~outcome.value.success
        /\ outcome.value.error \notin { Err(i) : i \in 1..(maxRetries - 1) }
        /\ opScript[maxRetries] \in {"fail", "throw"} =>
              outcome.value.error = Err(maxRetries)

\* withRetrySync has failed three times, each attempt with an error of its own
ThreeDistinctFailures ==
    /\ retryFn = "withRetrySync" /\ pc = "done"
    /\ maxRetries = 3
    /\ \A i \in 1..3 : opScript[i] = "fail"
    /\ outcome = Return([success |-> FALSE, attempts |-> 3, error |-> Err(3)])

\* C10: in both variants the operation is invoked exactly `attempts` times,
\* in attempt order 1, 2, ..., never more than maxRetries times and never
\* again after an attempt has succeeded; the success outcome carries the
\* value produced by that first succeeding attempt.
InvokedOncePerAttempt ==
    /\ Len(opCalls) = attempts
    /\ \A i \in 1..Len(opCalls) : opCalls[i] = i
    /\ maxRetries >= 1 => Len(opCalls) <= maxRetries
    /\ \A i \in 1..(Len(opCalls) - 1) : opScript[i] # "ok"
    /\ (pc = "done" /\ outcome.kind = "return") =>
          /\ outcome.value.attempts = Len(opCalls)
          /\ outcome.value.success =>
                /\ opScript[Len(opCalls)] = "ok"
                /\ outcome.value.result = Val(Len(opCalls))
    /\ (pc # "done" /\ Len(opCalls) >= 1 /\ opScript[Len(opCalls)] = "ok") =>
          pc = "awaiting"

\* withRetrySync has returned the value of the second invocation, although
\* the third would have succeeded too
SecondAttemptValueReturned ==
    /\ retryFn = "withRetrySync" /\ pc = "done"
    /\ opScript = << "fail", "ok", "ok" >>
    /\ opCalls = << 1, 2 >>
    /\ outcome = Return([success |-> TRUE, attempts |-> 2, result |-> Val(2)])

\* C11: neither withRetry nor withRetrySync raises (or rejects) because the
\* wrapped operation failed, also when the operation itself raises or
\* rejects on any subset of attempts; every failure is reported through the
\* outcome's success = false and error alone.
OperationFailureNeverRaises ==
    pc = "done" =>
        /\ outcome.kind = "return"
        /\ (Len(opCalls) >= 1 /\ opScript[Len(opCalls)] # "ok") =>
              /\ ~outcome.value.success
              /\ "error" \in DOMAIN outcome.value

\* Where an entry stands in trace
Positions(entry) == { p \in 1..Len(trace) : trace[p] = entry }

\* The error withRetry catches from the i-th invocation
ErrorOf(i) == IF opScript[i] = "failNoError" THEN Undefined ELSE Err(i)

\* C12: in withRetry, after each failed attempt i with i < maxRetries the
\* observer onRetry is called exactly once with (i, the error of attempt
\* i), before the inter-attempt delay and before attempt i+1 starts; after
\* the final failed attempt and after a successful attempt there is no
\* observer call and no delay, so an operation failing its first k
\* invocations causes min(k, maxRetries-1) observer calls.
ObserverCalledOncePerRetry ==
    (retryFn = "withRetry" /\ maxRetries >= 1) =>
        /\ \A i \in 1..ScriptLength :
              LET called == Positions(ObserverCalled(i))
                  caughtAndHandled ==
                      /\ Positions(Settled(i)) # {}
                      /\ opScript[i] # "ok"
                      /\ ~(pc = "catch" /\ attempt = i)
              IN  /\ Cardinality(called) <= 1
                  /\ (caughtAndHandled /\ i < maxRetries) => called # {}
                  /\ called # {} =>
                        /\ caughtAndHandled /\ i < maxRetries
                        /\ onRetryCalls[i] = [attempt |-> i, error |-> ErrorOf(i)]
                  /\ \A p \in called : p > 1 /\ trace[p - 1] = Settled(i)
                  /\ \A p \in Positions(TimerSet(i)) :
                        p > 1 /\ trace[p - 1] = ObserverCalled(i)
                  /\ \A p \in Positions(Invoked(i + 1)) :
                        \E q \in called : q < p
        /\ Len(onRetryCalls) =
              Cardinality({ p \in 1..Len(trace) : trace[p].ev = "onRetry" })
        /\ \A p \in 1..Len(trace) :
              (/\ trace[p].ev = "settled"
               /\ \/ opScript[trace[p].attempt] = "ok"
                  \/ trace[p].attempt >= maxRetries) => p = Len(trace)
        /\ \A k \in 0..ScriptLength :
              (pc = "done" /\ FailsThenSucceeds(k)) =>
                  Len(onRetryCalls) = Min(k, maxRetries - 1)

\* withRetry has given up after three failures with a delay of 250 ms: the
\* observer was called after the first and the second, each time before
\* the timer was set, and not after the third
ObserverCalledTwiceInThreeAttempts ==
    /\ retryFn = "withRetry" /\ pc = "done"
    /\ maxRetries = 3 /\ delay = 250
    /\ opScript = << "fail", "throw", "failNoError" >>
    /\ onRetryCalls = << [attempt |-> 1, error |-> Err(1)],
                         [attempt |-> 2, error |-> Err(2)] >>
    /\ trace = << Invoked(1), Settled(1), ObserverCalled(1), TimerSet(1), TimerFired(1),
                  Invoked(2), Settled(2), ObserverCalled(2), TimerSet(2), TimerFired(2),
                  Invoked(3), Settled(3) >>

\* C13, as the specification states it: in withRetry the suspension
\* between attempts is skipped both when the delay option is 0 and when no
\* delay option is supplied; in either case the next attempt starts after
\* the observer returns without waiting on a timer.
DelaySkippedWhenZeroOrOmitted ==
    (retryFn = "withRetry" /\ options.delay \in {Num(0), Undefined}) =>
        /\ timers = << >>
        /\ pc # "sleeping"
        /\ \A p \in 1..Len(trace) : trace[p].ev # "timerSet"

\* C13, amended: in withRetry the suspension between attempts is skipped
\* when the delay option is 0: the next attempt starts after the observer
\* returns without a timer.  When no delay option is supplied the default
\* of 1000 ms applies: after every observer call a 1000 ms timer is set and
\* the next attempt starts only once it has fired.
DelaySkippedOnlyWhenZero ==
    retryFn = "withRetry" =>
        /\ options.delay = Num(0) =>
              /\ timers = << >>
              /\ pc # "sleeping"
              /\ \A p \in 1..(Len(trace) - 1) :
                    trace[p].ev = "onRetry" =>
                        trace[p + 1] = Invoked(trace[p].attempt + 1)
        /\ options.delay = Undefined =>
              /\ Len(timers) = Len(onRetryCalls)
              /\ \A i \in 1..Len(timers) : timers[i] = 1000
              /\ \A p \in 1..Len(trace) :
                    /\ trace[p].ev = "onRetry" =>
                          /\ p < Len(trace)
                          /\ trace[p + 1] = TimerSet(trace[p].attempt)
                    /\ (trace[p].ev = "invoked" /\ p > 1) =>
                          trace[p - 1] = TimerFired(trace[p].attempt - 1)

\* With no delay option, withRetry waits on a 1000 ms timer after the
\* first failed attempt
WaitingOnDefaultDelay ==
    /\ retryFn = "withRetry" /\ pc = "sleeping"
    /\ options.delay = Undefined
    /\ timers = << 1000 >>
    /\ trace = << Invoked(1), Settled(1), ObserverCalled(1), TimerSet(1) >>

\* How many invocations of the operation are pending after the first p
\* entries of trace
Outstanding(p) ==
    Cardinality({ q \in 1..p : trace[q].ev = "invoked" })
        - Cardinality({ q \in 1..p : trace[q].ev = "settled" })

\* C14: within one withRetry invocation at most one invocation of the
\* wrapped operation is outstanding at any time: attempt i+1 is started
\* only after attempt i has settled as a failure, and after the observer
\* call and the delay, never while attempt i is still pending.
AtMostOneInvocationOutstanding ==
    retryFn = "withRetry" =>
        /\ \A p \in 0..Len(trace) : Outstanding(p) \in {0, 1}
        /\ pc = "awaiting" <=> Outstanding(Len(trace)) = 1
        /\ \A p \in 1..Len(trace) :
              (trace[p].ev = "invoked" /\ trace[p].attempt > 1) =>
                  LET i == trace[p].attempt - 1
                  IN  /\ Outstanding(p - 1) = 0
                      /\ opScript[i] # "ok"
                      /\ \E q \in 1..(p - 1) : trace[q] = Settled(i)
                      /\ \E q \in 1..(p - 1) : trace[q] = ObserverCalled(i)
                      /\ \A q \in 1..(p - 1) :
                            trace[q] = TimerSet(i) =>
                                \E r \in (q + 1)..(p - 1) : trace[r] = TimerFired(i)

\* The second attempt is pending, started after the first was rejected and
\* the observer was told
SecondAttemptPendingAlone ==
    /\ retryFn = "withRetry" /\ pc = "awaiting"
    /\ attempt = 2
    /\ trace = << Invoked(1), Settled(1), ObserverCalled(1), Invoked(2) >>

----------------------------------------------------------------------------
(* Device matcher properties, continued *)

\* Values that are no device record: null, undefined, the other
\* primitives, and an object with no fields
IsNoDeviceRecord(d) ==
    \/ d.t \in {"undefined", "null", "boolean", "number", "string"}
    \/ d = [t |-> "object", modelId |-> [t |-> "undefined"],
                            manufacturerName |-> [t |-> "undefined"]]

\* C15: isMatchingDevice is total: for null, undefined, a string, a number,
\* any other primitive and an object with no fields it returns false and
\* never raises.
MatcherTotalOnNonDevices ==
    matchResult # NotCalled =>
        /\ matchResult.kind = "return"
        /\ IsNoDeviceRecord(device) => matchResult.value = Bool(FALSE)

\* null has been judged: false, nothing raised
NullJudgedNoMatch ==
    /\ device = Null
    /\ matchResult = Return(Bool(FALSE))

----------------------------------------------------------------------------
(* Zone status parser properties, continued *)

\* The flags object of the non-negative integer n, bit by bit
FlagsOfInteger(n) ==
    [ t |-> "object",
      alarm1 |-> Bool(BitSet(n, 0)),
      alarm2 |-> Bool(BitSet(n, 1)),
      tamper |-> Bool(BitSet(n, 2)),
      battery |-> Bool(BitSet(n, 3)),
      supervisionReports |-> Bool(BitSet(n, 4)),
      restoreReports |-> Bool(BitSet(n, 5)),
      trouble |-> Bool(BitSet(n, 6)),
      acMains |-> Bool(BitSet(n, 7)) ]

\* {type: 'Buffer', data: [b0, b1, ...]} with at least two bytes
IsSerializedBytes(v) ==
    /\ v.t = "object"
    /\ Get(v, "type") = Str("Buffer")
    /\ IsArray(Get(v, "data"))
    /\ Len(Get(v, "data").elems) >= 2
    /\ \A i \in 1..Len(Get(v, "data").elems) : Get(v, "data").elems[i] \in 0..255

\* C16: for a byte sequence of length >= 2 with first bytes b0, b1,
\* parseZoneStatus yields the flags of the integer b0 + 256*b1
\* (little-endian, later bytes ignored), and a serialized-buffer object
\* {type: 'Buffer', data: [b0, b1, ...]} yields the same flags as the byte
\* sequence with the same bytes.
BytesDecodedLittleEndian ==
    parsed # NotCalled =>
        /\ (IsBuffer(zoneStatus) /\ Len(zoneStatus.bytes) >= 2) =>
              parsed = Return(FlagsOfInteger(zoneStatus.bytes[1]
                                             + 256 * zoneStatus.bytes[2]))
        /\ IsSerializedBytes(zoneStatus) =>
              parsed = Return(FlagsOfInteger(Get(zoneStatus, "data").elems[1]
                                  + 256 * Get(zoneStatus, "data").elems[2]))

\* The bytes 01 80 FF have been parsed as 0x8001: alarm1 set, acMains clear
ThreeBytesParsed ==
    /\ zoneStatus = BufferOf(<< 1, 128, 255 >>)
    /\ parsed = Return(FlagsOfInteger(1))
    /\ parsed.value.alarm1 = Bool(TRUE)
    /\ parsed.value.acMains = Bool(FALSE)

\* A flags object with eight boolean fields
HasEightBooleanFlags(v) ==
    /\ v.t = "object"
    /\ DOMAIN v = {"t"} \cup { FlagNames[i] : i \in 1..Len(FlagNames) }
    /\ \A i \in 1..Len(FlagNames) : v[FlagNames[i]] \in {Bool(FALSE), Bool(TRUE)}

\* C17: decoding round-trips through the flags representation: for every
\* integer s in 0..0xFFFF, parseZoneStatus(parseZoneStatus(s)) equals
\* parseZoneStatus(s), and for every flags object f with eight boolean
\* fields parseZoneStatus(f) has the same eight flag values as f.
DecodingRoundTrips ==
    /\ (reparsed # NotCalled /\ IsStatusWord(zoneStatus)) =>
          /\ reparsed.kind = "return"
          /\ reparsed = parsed
    /\ (parsed # NotCalled /\ HasEightBooleanFlags(zoneStatus)) =>
          /\ parsed.kind = "return"
          /\ \A i \in 1..Len(FlagNames) :
                parsed.value[FlagNames[i]] = zoneStatus[FlagNames[i]]

\* The word 0x00A5 has been decoded, and its flags decoded again to the
\* same flags: alarm1, tamper, restoreReports, acMains
WordDecodedTwice ==
    /\ zoneStatus = Num(165)
    /\ parsed = Return(FlagsOfInteger(165))
    /\ reparsed = parsed

\* The flags object a flags-carrying object is read as: each flag true
\* exactly when its field is truthy
FlagsAsCarried(v) ==
    [ name \in {"t"} \cup { FlagNames[i] : i \in 1..Len(FlagNames) } |->
        IF name = "t" THEN "object" ELSE Bool(ToBoolean(Get(v, name))) ]

\* C18: normalisation resolves the shapes in a fixed priority order: native
\* number, byte buffer, serialized-buffer object, flags object carrying
\* alarm1, object whose valueOf() returns a number, object with a numeric
\* raw field, otherwise 0.  An object without alarm1 whose valueOf()
\* returns n decodes like n; one whose valueOf() is not numeric but whose
\* raw field is the number r decodes like r; with both, valueOf() is used.
NormalisationFollowsPriority ==
    parsed # NotCalled =>
        LET v == zoneStatus
            isBuffer == IsBuffer(v)
            isSerialized == /\ v.t = "object" /\ ~isBuffer
                            /\ Get(v, "type") = Str("Buffer")
                            /\ IsArray(Get(v, "data"))
            isOther == v.t = "object" /\ ~isBuffer /\ ~isSerialized
            hasAlarm1 == Get(v, "alarm1") # Undefined
            valueOfIsNumeric == /\ Get(v, "valueOf").t = "function"
                                /\ Get(v, "valueOf").ret.t = "number"
            rawIsNumeric == Get(v, "raw").t = "number"
        IN  /\ v.t = "number" => parsed = Return(FlagsOfInteger(v.n))
            /\ (isBuffer /\ Len(v.bytes) >= 2) =>
                  parsed = Return(FlagsOfInteger(v.bytes[1]))
            /\ (isSerialized /\ Len(Get(v, "data").elems) >= 2) =>
                  parsed = Return(FlagsOfInteger(Get(v, "data").elems[1] % 256))
            /\ (isOther /\ hasAlarm1) => parsed = Return(FlagsAsCarried(v))
            /\ (isOther /\ ~hasAlarm1 /\ valueOfIsNumeric) =>
                  parsed = Return(FlagsOfInteger(Get(v, "valueOf").ret.n))
            /\ (isOther /\ ~hasAlarm1 /\ ~valueOfIsNumeric /\ rawIsNumeric) =>
                  parsed = Return(FlagsOfInteger(Get(v, "raw").n))
            /\ (isOther /\ ~hasAlarm1 /\ ~valueOfIsNumeric /\ ~rawIsNumeric) =>
                  parsed = Return(FlagsOfInteger(0))
            /\ v.t \notin {"number", "object"} => parsed = Return(FlagsOfInteger(0))

\* An object whose valueOf() returns 130 and whose raw field is 1 has been
\* decoded like 130: alarm2 and acMains set, alarm1 clear
ValueOfPreferredToRaw ==
    /\ zoneStatus = [t |-> "object", valueOf |-> Fn(Num(130)), raw |-> Num(1)]
    /\ parsed = Return(FlagsOfInteger(130))
    /\ parsed.value.alarm1 = Bool(FALSE)
    /\ parsed.value.alarm2 = Bool(TRUE)

\* C19: bits 8-15 of the status word never influence the decoded flags:
\* two integers in 0..0xFFFF with the same remainder modulo 256 are parsed
\* to identical flags, namely the flags of that remainder.
ParseIgnoresHighByte ==
    (parsed # NotCalled /\ IsStatusWord(zoneStatus)) =>
        parsed = Return(FlagsOfInteger(zoneStatus.n % 256))

\* The word 0xFF00 has been parsed like 0: no flag set
HighByteOnlyParsed ==
    /\ zoneStatus = Num(65280)
    /\ parsed = Return(FlagsOfInteger(0))
    /\ AllFlagsFalse(parsed.value)

\* C20: presence detection is independent of every status bit other than
\* bit 0: for two integer status words in 0..0xFFFF that agree on bit 0,
\* isPresenceDetected returns the same value, equal to that bit.
PresenceIsBitZeroAlone ==
    (presence # NotCalled /\ IsStatusWord(zoneStatus)) =>
        presence = Return(Bool(zoneStatus.n % 2 = 1))

\* The word 0xFFFE, every bit set but bit 0, has been judged: no presence
AllButBitZeroJudgedAbsent ==
    /\ zoneStatus = Num(65534)
    /\ presence = Return(Bool(FALSE))

----------------------------------------------------------------------------
(* Flow trigger properties, continued *)

\* C21: folding determineFlowTrigger over a finite sequence of presence
\* states that starts from the unknown state fires a trigger exactly at the
\* positions where the state differs from its predecessor, and the fired
\* triggers strictly alternate, starting with the one that matches the
\* first observation: no two motion_detected without a motion_cleared
\* between them, and vice versa.
FoldedTriggersAlternate ==
    (Len(observed) >= 1 /\ observed[1] = Null) =>
        /\ \A i \in Calls : fired[i] # Null <=> observed[i + 1] # observed[i]
        /\ Len(fired) >= 1 =>
              fired[1] = IF observed[2] = Bool(TRUE)
                         THEN Str("motion_detected") ELSE Str("motion_cleared")
        /\ \A i, j \in Calls :
              (/\ i < j
               /\ fired[i] # Null /\ fired[j] # Null
               /\ \A m \in (i + 1)..(j - 1) : fired[m] = Null) =>
                  fired[i] # fired[j]

\* unknown, true, true, false has fired motion_detected, nothing,
\* motion_cleared
UnknownTrueTrueFalseFolded ==
    /\ observed = << Null, Bool(TRUE), Bool(TRUE), Bool(FALSE) >>
    /\ fired = << Str("motion_detected"), Null, Str("motion_cleared") >>

----------------------------------------------------------------------------
(* Retry properties, continued *)

\* C22: every outcome returned by withRetrySync or withRetry called with
\* maxRetries >= 1 is well formed: 1 <= attempts <= maxRetries; an outcome
\* with success = true carries a result and no error; an outcome with
\* success = false carries a defined error and no result, also when the
\* operation reported failure without supplying an error.
OutcomeWellFormed ==
    (pc = "done" /\ outcome.kind = "return" /\ maxRetries >= 1) =>
        /\ outcome.value.attempts \in 1..maxRetries
        /\ outcome.value.success =>
              /\ "result" \in DOMAIN outcome.value
              /\ "error" \notin DOMAIN outcome.value
        /\ ~outcome.value.success =>
              /\ "error" \in DOMAIN outcome.value
              /\ outcome.value.error # Undefined
              /\ "result" \notin DOMAIN outcome.value

----------------------------------------------------------------------------
(* Device driver properties *)

\* The last handler run made this call
Did(effect) == \E p \in 1..Len(lastRun.effects) : lastRun.effects[p] = effect

\* The last handler run called trigger on this card, whether or not the
\* call succeeded
TriggerCalled(card) == Did(Trigger(Str(card))) \/ Did(TriggerFailed(Str(card)))

\* C23: whenever alarm_motion changes from false (or unknown) to true the
\* motion_detected card is triggered, and whenever it changes from true to
\* false the motion_cleared card is triggered, whichever handler made the
\* change: the zone status notification, the poll, or the status read at
\* initialisation or on coming back online.
EveryCapabilityChangeTriggersCard ==
    lastRun.handler # "none" =>
        /\ (lastRun.before # Bool(TRUE) /\ alarmMotion = Bool(TRUE)) =>
              TriggerCalled("motion_detected")
        /\ (lastRun.before = Bool(TRUE) /\ alarmMotion = Bool(FALSE)) =>
              TriggerCalled("motion_cleared")

\* The presence a zone status reports: bit 0 of a number, alarm1 of a
\* Bitmap object
ReportedPresence(s) ==
    IF s.t = "number" THEN Bool(s.n % 2 = 1) ELSE Bool(ToBoolean(Get(s, "alarm1")))

\* onZoneStatusChange was the last handler to run, and it completed
ZoneStatusChangeHandled ==
    lastRun.handler = "onZoneStatusChange" /\ lastRun.completion = "return"

\* C24: after onZoneStatusChange has run to completion for a payload whose
\* zone status is s, with no other handler interleaved, alarm_motion is
\* true if and only if bit 0 (alarm1) of s is set, whatever the capability's
\* value (true, false or unknown) was before.
CapabilityFollowsBitZero ==
    ZoneStatusChangeHandled =>
        /\ alarmMotion \in {Bool(FALSE), Bool(TRUE)}
        /\ alarmMotion = ReportedPresence(lastRun.input)
        /\ lastRun.input.t = "number" =>
              (alarmMotion = Bool(TRUE) <=> BitSet(lastRun.input.n, 0))

\* The status 0xFFFE has been handled while alarm_motion was true: it is
\* false now
AllButBitZeroClearsMotion ==
    /\ ZoneStatusChangeHandled
    /\ lastRun.input = Num(65534)
    /\ lastRun.before = Bool(TRUE)
    /\ alarmMotion = Bool(FALSE)

\* C25: onZoneStatusChange writes alarm_motion and triggers a flow card
\* only when the reported presence differs from the current capability
\* value; when they are equal it writes nothing and triggers no card.  When
\* it acts, the capability is written before the card is triggered, and the
\* card is the one determineFlowTrigger names for (current value, reported
\* presence): motion_detected for true, motion_cleared for false.
ActsOnlyOnChange ==
    ZoneStatusChangeHandled =>
        LET reported == ReportedPresence(lastRun.input)
            current == lastRun.before
        IN  IF current = reported
            THEN /\ lastRun.effects = << >>
                 /\ alarmMotion = current
            ELSE /\ Len(lastRun.effects) = 2
                 /\ lastRun.effects[1] = SetCapability(reported)
                 /\ lastRun.effects[2].ev \in {"trigger", "triggerFailed"}
                 /\ lastRun.effects[2].card =
                       IF reported = Bool(TRUE) THEN Str("motion_detected")
                       ELSE Str("motion_cleared")

\* A first report of presence, the capability being unknown: the capability
\* was written, then motion_detected was triggered
FirstPresenceWrittenThenTriggered ==
    /\ ZoneStatusChangeHandled
    /\ lastRun.before = Null
    /\ lastRun.input = Num(1)
    /\ lastRun.effects = << SetCapability(Bool(TRUE)), Trigger(Str("motion_detected")) >>
    /\ alarmMotion = Bool(TRUE)

\* The attempts of configureIASZone the last onAdded run made, in order
ConfigureCalls ==
    SelectSeq(lastRun.effects, LAMBDA e : e.ev = "configureIASZone")

\* The i-th attempt of the last onAdded run failed: without the node
\* reference or the cluster it raises at once, otherwise the node decides
ConfigureAttemptFailed(i) ==
    \/ ~initialised
    \/ ~iasZoneCluster
    \/ lastRun.input[i] \in {"readRejects", "responseRejects", "rereadRejects",
                            "stillNotEnrolled"}

\* C26: when a device is added (onAdded), configureIASZone is run at most 3
\* times (MAX_RETRIES), stopping at the first attempt that succeeds; onAdded
\* raises an error if and only if all 3 attempts failed, and completes
\* normally if any attempt among the first 3 succeeded.
ConfiguredWithinThreeAttempts ==
    lastRun.handler = "onAdded" =>
        LET calls == Len(ConfigureCalls)
        IN  /\ calls \in 1..3
            /\ calls = Len(lastRun.input)
            /\ \A i \in 1..calls : ConfigureCalls[i] = ConfigureCalled(i)
            /\ \A i \in 1..(calls - 1) : ConfigureAttemptFailed(i)
            /\ lastRun.completion = "return" <=> ~ConfigureAttemptFailed(calls)
            /\ lastRun.completion = "throw" <=>
                  (calls = 3 /\ \A i \in 1..3 : ConfigureAttemptFailed(i))

\* onAdded has completed normally on the third attempt, after two failures
AddedOnThirdAttempt ==
    /\ lastRun.handler = "onAdded"
    /\ lastRun.completion = "return"
    /\ lastRun.input = << "readRejects", "stillNotEnrolled", "enrolled" >>
    /\ Len(ConfigureCalls) = 3
    /\ store.iasZoneEnrolled = Bool(TRUE)

\* C27: from the completion of onOffline until the next onOnline the device
\* is marked unavailable; onOnline marks the device available and then
\* reads the zone status again and syncs alarm_motion to it, and a failure
\* of that read does not raise from onOnline nor leave the device
\* unavailable.
UnavailableWhileOffline ==
    /\ connectivity = "offline" => ~available
    /\ lastRun.handler = "onOnline" =>
          /\ connectivity = "online"
          /\ available
          /\ lastRun.completion = "return"
          /\ lastRun.effects[1] = SetAvailable
          /\ (initialised /\ iasZoneCluster) =>
                /\ Len(lastRun.effects) >= 2
                /\ lastRun.effects[2] = ReadZoneStatus
                /\ (lastRun.input.kind = "return" /\ lastRun.input.value.t = "number") =>
                      alarmMotion = Bool(lastRun.input.value.n % 2 = 1)
                /\ lastRun.input.kind = "throw" => alarmMotion = lastRun.before

\* The device has come back online and the read of the zone status was
\* rejected: it is available, and nothing was raised
OnlineAgainAlthoughReadFailed ==
    /\ lastRun.handler = "onOnline"
    /\ initialised /\ iasZoneCluster
    /\ lastRun.input = Rejected
    /\ lastRun.effects = << SetAvailable, ReadZoneStatus >>
    /\ lastRun.completion = "return"
    /\ available

\* C28: on initialisation (onNodeInit) of a device whose stored
\* iasZoneEnrolled flag is not true, the app attempts IAS Zone enrollment
\* again (runs the zone configuration) before the device is recorded as
\* enrolled.
EnrollmentAttemptedBeforeMarking ==
    lastRun.handler = "onNodeInit" =>
        \A p \in 1..Len(lastRun.effects) :
            lastRun.effects[p] = SetStore("iasZoneEnrolled", Bool(TRUE)) =>
                \E q \in 1..(p - 1) :
                    lastRun.effects[q].ev \in {"configureIASZone", "zoneEnrollResponse"}

----------------------------------------------------------------------------
(* Manifest validator properties *)

\* Every required field is an own property of the manifest
RequiredFieldsPresent(m) ==
    \A i \in 1..Len(REQUIRED_FIELDS) : HasProperty(m, REQUIRED_FIELDS[i])

\* The manifest has an sdk that is a number, and at least 3
SdkIsNumberAtLeastThree(m) ==
    /\ HasProperty(m, "sdk")
    /\ m.sdk.t = "number"
    /\ ~IsNaN(m.sdk)
    /\ m.sdk.n >= 3

\* The manifest has an sdk that is a number below 3
SdkIsNumberBelowThree(m) ==
    /\ HasProperty(m, "sdk")
    /\ m.sdk.t = "number"
    /\ ~IsNaN(m.sdk)
    /\ m.sdk.n < 3

\* Some error of the result has the piece in it
SomeErrorHolds(result, piece) ==
    \E i \in 1..Len(result.errors) :
        \E j \in 1..Len(result.errors[i]) : result.errors[i][j] = piece

\* C29: validateManifest reports a manifest valid if and only if all eight
\* required fields are present and sdk is a number that is at least 3; a
\* missing required field gives an error that names the field, and an sdk
\* below 3 gives the error about the SDK version.
ManifestValidIffCompleteWithNumericSdk ==
    manifestResult.kind = "return" =>
        LET result == manifestResult.value IN
        /\ result.valid <=>
              /\ RequiredFieldsPresent(manifest)
              /\ SdkIsNumberAtLeastThree(manifest)
        /\ \A i \in 1..Len(REQUIRED_FIELDS) :
              ~HasProperty(manifest, REQUIRED_FIELDS[i]) =>
                  /\ ~result.valid
                  /\ SomeErrorHolds(result, REQUIRED_FIELDS[i])
        /\ SdkIsNumberBelowThree(manifest) =>
              /\ ~result.valid
              /\ SomeErrorHolds(result, "SDK version must be >= 3, got ")

----------------------------------------------------------------------------
(* Localization validator properties *)

\* The value that the key path leads to in the locale object
Resolved(keyPath) == getNestedValue(localization, keyPath)

RequiredKeySet == { REQUIRED_KEYS[i] : i \in 1..Len(REQUIRED_KEYS) }

IsNonEmptyString(v) == v.t = "string" /\ Len(v.s) > 0

\* A string with a character that is not white space
IsNonBlankString(v) ==
    v.t = "string" /\ \E i \in 1..Len(v.s) : v.s[i] \notin WhiteSpace

\* C30, as stated: validateLocalization reports a locale object valid if and
\* only if each of the six required key paths resolves to a non-empty
\* string; a missing key or an empty value at a required key path makes it
\* invalid with an error that names the key path.
LocalizationValidIffAllNonEmptyStrings ==
    localizationResult.kind = "return" =>
        LET result == localizationResult.value IN
        /\ result.valid <=>
              \A k \in RequiredKeySet : IsNonEmptyString(Resolved(k))
        /\ \A k \in RequiredKeySet :
              (Resolved(k) = Undefined \/ Resolved(k) = Str(<< >>)) =>
                  /\ ~result.valid
                  /\ SomeErrorHolds(result, k)

\* C30, amended: validateLocalization reports a locale object valid if and
\* only if each of the six required key paths resolves to a string with at
\* least one character that is not white space; a key path that resolves
\* to nothing, to a value that is not a string, or to an empty or
\* white-space-only string makes it invalid with an error that names the
\* key path, and a key path that resolves to a non-blank string gives no
\* error.
LocalizationValidIffAllNonBlankStrings ==
    localizationResult.kind = "return" =>
        LET result == localizationResult.value IN
        /\ result.valid <=>
              \A k \in RequiredKeySet : IsNonBlankString(Resolved(k))
        /\ \A k \in RequiredKeySet :
              IsNonBlankString(Resolved(k)) <=> ~SomeErrorHolds(result, k)
        /\ \A k \in RequiredKeySet :
              Resolved(k) = Undefined =>
                  MissingKeyError(k) \in
                      { result.errors[i] : i \in 1..Len(result.errors) }

\* validateLocalization has judged a locale object whose app.name is one
\* space and whose other required keys are set: the only error is the one
\* about app.name being empty.
BlankNameRejected ==
    /\ localizationResult.kind = "return"
    /\ Resolved("app.name") = Str(<< " " >>)
    /\ \A k \in RequiredKeySet \ {"app.name"} : Resolved(k) = Str(<< "T" >>)
    /\ ~localizationResult.value.valid
    /\ localizationResult.value.errors = << EmptyValueError("app.name") >>

\* The last run was one of the handlers that read the zone status, and the
\* read was rejected or could not be made for want of the cluster
StatusReadFailed ==
    /\ lastRun.handler \in {"onNodeInit", "poll", "onOnline"}
    /\ \/ ~initialised
       \/ ~iasZoneCluster
       \/ lastRun.input = Rejected

\* C33: when the read of the zoneStatus attribute is rejected, or the IAS
\* Zone cluster is absent, during readCurrentZoneStatus or a poll tick,
\* alarm_motion keeps the value it had, no capability is written, no flow
\* card is triggered and nothing is raised: onNodeInit goes on to start
\* polling and onOnline returns with the device available.
FailedReadKeepsCapability ==
    StatusReadFailed =>
        /\ alarmMotion = lastRun.before
        /\ \A p \in 1..Len(lastRun.effects) :
              lastRun.effects[p].ev \notin
                  {"setCapabilityValue", "trigger", "triggerFailed"}
        /\ lastRun.completion = "return"
        /\ lastRun.handler = "onNodeInit" =>
              initialised /\ polling /\ handlersRegistered = iasZoneCluster
        /\ lastRun.handler = "onOnline" => available /\ Did(SetAvailable)

\* onNodeInit has run on a device whose capability was true and whose
\* status read was rejected: the capability is still true and polling runs
InitialisedAlthoughReadFailed ==
    /\ lastRun.handler = "onNodeInit"
    /\ iasZoneCluster
    /\ lastRun.input = Rejected
    /\ Did(ReadZoneStatus)
    /\ lastRun.before = Bool(TRUE)
    /\ alarmMotion = Bool(TRUE)
    /\ polling

\* What the i-th attempt of configureIASZone did in a run of onAdded: the
\* entries after its call, up to the observer's call or the next attempt
AttemptEffects(run, i) ==
    LET e == run.effects
        start == CHOOSE p \in 1..Len(e) : e[p] = ConfigureCalled(i)
        ends == { q \in (start + 1)..Len(e) :
                    e[q].ev \in {"onRetry", "configureIASZone"} }
        stop == IF ends = {} THEN Len(e) + 1
                ELSE CHOOSE q \in ends : \A r \in ends : q <= r
    IN  SubSeq(e, start + 1, stop - 1)

\* C34: when the node reads zoneState 'enrolled' at the start of an attempt
\* of configureIASZone, the attempt sends no zone enroll response, sets the
\* store value iasZoneEnrolled to true and succeeds, so it is the last
\* attempt and onAdded returns.
AlreadyEnrolledNotEnrolledAgain ==
    (lastRun.handler = "onAdded" /\ initialised /\ iasZoneCluster) =>
        \A i \in 1..Len(lastRun.input) :
            lastRun.input[i] = "alreadyEnrolled" =>
                /\ AttemptEffects(lastRun, i) =
                      << ReadZoneState, SetStore("iasZoneEnrolled", Bool(TRUE)) >>
                /\ i = Len(lastRun.input)
                /\ lastRun.completion = "return"
                /\ store.iasZoneEnrolled = Bool(TRUE)

\* onAdded has run on a device that rejected the first read and read
\* 'enrolled' at the second attempt: no enroll response was sent
AlreadyEnrolledAtSecondAttempt ==
    /\ lastRun.handler = "onAdded"
    /\ lastRun.input = << "readRejects", "alreadyEnrolled" >>
    /\ lastRun.completion = "return"
    /\ ~Did(EnrollResponse)
    /\ Did(SetStore("iasZoneEnrolled", Bool(TRUE)))
    /\ store.iasZoneEnrolled = Bool(TRUE)

\* The i-th attempt of a run of onAdded failed
AttemptFailed(run, i) ==
    \/ ~initialised
    \/ ~iasZoneCluster
    \/ run.input[i] \notin {"alreadyEnrolled", "enrolled"}

\* The positions of the store writes among a sequence of effects
StoreWrites(effects) ==
    { p \in 1..Len(effects) : effects[p].ev = "setStoreValue" }

\* C35: an attempt of configureIASZone that fails (the cluster is missing,
\* a read of zoneState or the enroll response is rejected, or zoneState is
\* not 'enrolled' after the enroll response) writes no store value, so a
\* run of onAdded whose attempts all fail leaves the store as it was; and
\* iasZoneEnrolled is written, with true, only in an attempt in which a
\* read returned 'enrolled', after that read.
FailedAttemptWritesNothing ==
    [][ (lastRun' # lastRun /\ lastRun'.handler = "onAdded") =>
          LET run == lastRun' IN
          /\ \A i \in 1..Len(run.input) :
                LET did == AttemptEffects(run, i) IN
                /\ AttemptFailed(run, i) => StoreWrites(did) = {}
                /\ \A p \in StoreWrites(did) :
                      /\ did[p].value = Bool(TRUE)
                      /\ run.input[i] \in {"alreadyEnrolled", "enrolled"}
                      /\ \E q \in 1..(p - 1) : did[q] = ReadZoneState
                      /\ run.input[i] = "enrolled" =>
                            \E q \in 1..(p - 1) :
                                /\ did[q] = ReadZoneState
                                /\ \E r \in 1..(q - 1) : did[r] = EnrollResponse
          /\ run.completion = "throw" => store' = store
          /\ store' # store => ~AttemptFailed(run, Len(run.input))
      ]_vars

\* onAdded has raised after three attempts that failed in three ways, and
\* the store holds no configuration mark
ThreeFailuresStoreUntouched ==
    /\ lastRun.handler = "onAdded"
    /\ initialised /\ iasZoneCluster
    /\ lastRun.input = << "responseRejects", "rereadRejects", "stillNotEnrolled" >>
    /\ lastRun.completion = "throw"
    /\ StoreWrites(lastRun.effects) = {}
    /\ store.cieAddressConfigured = Null

\* C36: when the trigger of the flow card fails inside onZoneStatusChange,
\* the handler still returns without raising and alarm_motion holds the
\* presence just written: the capability is written once and not written
\* back, and the card is triggered once and not again.
TriggerFailureIsSwallowed ==
    (lastRun.handler = "onZoneStatusChange"
       /\ \E p \in 1..Len(lastRun.effects) : lastRun.effects[p].ev = "triggerFailed") =>
        /\ lastRun.completion = "return"
        /\ alarmMotion = ReportedPresence(lastRun.input)
        /\ alarmMotion # lastRun.before
        /\ Len(lastRun.effects) = 2
        /\ lastRun.effects[1] = SetCapability(alarmMotion)
        /\ lastRun.effects[2].ev = "triggerFailed"

\* A report of presence was handled while alarm_motion was false and the
\* trigger of motion_detected failed: the handler returned and alarm_motion
\* is true
TriggerFailedCapabilityKept ==
    /\ lastRun.handler = "onZoneStatusChange"
    /\ lastRun.input = Num(1)
    /\ lastRun.before = Bool(FALSE)
    /\ lastRun.effects = << SetCapability(Bool(TRUE)),
                            TriggerFailed(Str("motion_detected")) >>
    /\ lastRun.completion = "return"
    /\ alarmMotion = Bool(TRUE)

\* C38: the is_motion_detected condition evaluates to true if and only if
\* the alarm_motion capability holds exactly true, so to false when it holds
\* false or is unknown (null), and evaluating it changes nothing of the
\* device: not the capability, the store, the availability, the polling or
\* the registered handlers.
ConditionTrueIffMotionTrue ==
    [][ (lastRun' # lastRun /\ lastRun'.handler = "is_motion_detected") =>
          /\ lastRun'.effects = << Returned(Bool(alarmMotion = Bool(TRUE))) >>
          /\ alarmMotion \in {Null, Bool(FALSE)} =>
                lastRun'.effects = << Returned(Bool(FALSE)) >>
          /\ lastRun'.completion = "return"
          /\ UNCHANGED <<initialised, iasZoneCluster, handlersRegistered,
                         polling, alarmMotion, available, store, connectivity>>
      ]_vars

\* The condition has been evaluated while alarm_motion was unknown, and it
\* evaluated to false
UnknownMotionJudgedFalse ==
    /\ lastRun.handler = "is_motion_detected"
    /\ lastRun.before = Null
    /\ alarmMotion = Null
    /\ lastRun.effects = << Returned(Bool(FALSE)) >>

----------------------------------------------------------------------------
(* Retry properties: termination *)

\* C32: every retry run terminates.  withRetrySync never invokes the
\* operation more than maxRetries times and its run ends; withRetry, when
\* every invocation settles and every timer fires, ends by returning an
\* outcome, for maxRetries >= 1 as for 0 and for the default.  A run of
\* withRetrySync whose operation raises ends with that invocation.
RetryRunTerminates ==
    /\ [](Len(opCalls) <= IF maxRetries > 0 THEN maxRetries ELSE 0)
    /\ [](pc = "done" => outcome # NotCalled)
    /\ []((pc = "done" /\ retryFn = "withRetry") => outcome.kind = "return")
    /\ <>(pc = "done")

\* withRetry has returned the failure outcome after three attempts, with
\* two timers set and fired on the way
ReturnedAfterThreeFailuresAndTwoDelays ==
    /\ retryFn = "withRetry"
    /\ pc = "done"
    /\ Len(opCalls) = 3
    /\ Len(timers) = 2
    /\ outcome.kind = "return"
    /\ ~outcome.value.success

----------------------------------------------------------------------------
(* Device driver properties: overlapping handlers *)

\* Every handler that started has run to completion
HandlersCompleted ==
    /\ nodeInit # "awaiting"
    /\ \A t \in DOMAIN tasks : tasks[t].pc = "idle"

\* C31: for every interleaving of zone status notifications, poll ticks
\* and status re-reads, once all started handlers have completed the
\* alarm_motion capability equals the presence bit of the zone status that
\* the device delivered last.
CapabilityFollowsLastDelivered ==
    (HandlersCompleted /\ delivered # Null)
        => alarmMotion = isPresenceDetected(delivered).value

\* C37: after onDeleted has run no further poll tick begins.
NoTickAfterDeleted == ~tickAfterDelete

====
